---- MODULE Spec2Model ----
(***************************************************************************)
(* filagram-backend: the hybrid message envelope (X25519 + HKDF-SHA3-256 + *)
(* AES-GCM, src/main.go) and the signed-and-encrypted session tokens       *)
(* (src/internal/core/jwt.go, src/internal/api/middleware).                *)
(*                                                                         *)
(* Byte strings are symbolic: a byte string is a record                    *)
(*     [t |-> term, n |-> length in bytes, x |-> set of flipped bit        *)
(*      positions]                                                         *)
(* i.e. the bytes the term stands for, XOR a mask.  Two byte strings are   *)
(* equal iff they are the same record.  The cryptographic primitives are   *)
(* the usual symbolic ones: a random draw is a fresh term, HKDF and the    *)
(* AEAD are injective term constructors, an AEAD tag verifies only for the *)
(* very key, nonce and ciphertext it was made for, and                     *)
(* X25519(a, pub(b)) = X25519(b, pub(a)).                                  *)
(***************************************************************************)
EXTENDS Integers, Sequences, FiniteSets, TLC

VARIABLES
    (* the message envelope *)
    msg,        \* the envelope at hand (as stored / relayed)
    sent,       \* the last EncryptMessage call: its inputs and what it returned
    dec,        \* the last DecryptMessage call on msg: its keys and what it returned
    calls,      \* number of EncryptMessage calls so far
    (* session tokens *)
    clock,      \* time.Now().Unix()
    env,        \* the process environment: JWT_ACCESS_SECRET, JWT_REFRESH_SECRET
    held,       \* the token at hand: the signed token and its wire form
    last,       \* the last verification or request: its inputs and its outcome
    (* EncryptMessage on any byte strings *)
    enc,        \* the calls so far: the last one and the envelopes returned
    (* the process *)
    proc,       \* main: where it is, what it has loaded and started
    (* the handlers *)
    rsp,        \* the last call of SignIn, RefreshToken or the MQTT hook: inputs and response
    ws,         \* the /ws connection: what the client sent, what was read and written
    (* the chat services *)
    srv,        \* Server of another_handler.go: queues, presence, goroutines
    api         \* APIServer of message_websocket.go: UserService and the goroutines in it

envelopeVars == <<msg, sent, dec, calls>>

tokenVars == <<clock, env, held, last>>

processVars == <<enc, proc>>

handlerVars == <<rsp, ws>>

chatVars == <<srv, api>>

vars == <<msg, sent, dec, calls, clock, env, held, last, enc, proc, rsp, ws, srv, api>>

-----------------------------------------------------------------------------
(* Bounds of the model *)

\* longest plaintext (bytes) handed to EncryptMessage
MaxPlainLen == 1
\* Tamper inverts one of the bits 0 .. MaxBit of any byte of the envelope
MaxBit == 0
\* number of EncryptMessage calls in one behaviour
MaxCalls == 2
\* the clock reading at the start
StartClock == 10
\* seconds that may pass between two readings of the clock within one call
MaxSkew == 1

\* requests served by the process
MaxServed == 2

\* tokens issued after the one the model follows
MaxNewer == 1
\* length in bytes of a signed token string
JwtLen == 300

(* Sizes fixed by the program *)

\* messageAes := make([]byte, 16)
MessageKeySize == 16
\* messageNonce / encKeyNonce := make([]byte, 12); cipher.NewGCM's NonceSize()
NonceSize == 12
\* sharedSecretSalt := make([]byte, 32)
SaltSize == 32
\* hash().Size() of sha3.New256
HashSize == 32
\* privateKey := make([]byte, 32); X25519 scalars and points
ScalarSize == 32
\* the tag aesgcm.Seal appends (cipher.NewGCM's Overhead())
TagSize == 16

-----------------------------------------------------------------------------
(* Byte strings *)

Bytes(term, len) == [t |-> term, n |-> len, x |-> {}]

\* a nil / empty slice
NilBytes == Bytes([k |-> "nil"], 0)

\* a successful draw of len bytes from rand.Reader: a fresh value
Rnd(id, len) == Bytes([k |-> "rnd", id |-> id], len)

\* the byte string of a literal plaintext of the given length
Lit(len) == Bytes([k |-> "lit", id |-> len], len)

\* s with bit p (0 .. 8*s.n - 1) inverted
FlipBit(s, p) == [s EXCEPT !.x = IF p \in @ THEN @ \ {p} ELSE @ \cup {p}]

SymDiff(a, b) == (a \ b) \cup (b \ a)

\* a xor-mask restricted to the bytes [from, to) and re-based at from
MaskSlice(mask, from, to) == {p - 8 * from : p \in {q \in mask : q >= 8 * from /\ q < 8 * to}}

\* dst[:c] of a byte string with at least c bytes.  The output of Seal
\* (nonce || ciphertext || tag) splits at the nonce.
SliceTo(s, c) ==
    IF s.t.k = "seal" /\ c = s.t.nonce.n
    THEN [t |-> s.t.nonce.t, n |-> c, x |-> SymDiff(s.t.nonce.x, MaskSlice(s.x, 0, c))]
    ELSE [t |-> [k |-> "head", of |-> s], n |-> c, x |-> {}]

\* dst[c:] that forgets to drop the first c bytes
SliceFromKeepsNonce(s, c) == s

\* dst[c:] of a byte string with at least c bytes
SliceFrom(s, c) ==
    IF s.t.k = "seal" /\ c = s.t.nonce.n
    THEN [t |-> [k |-> "ctag", key |-> s.t.key, nonce |-> s.t.nonce, pt |-> s.t.pt],
          n |-> s.n - c, x |-> MaskSlice(s.x, c, s.n)]
    ELSE [t |-> [k |-> "tail", of |-> s], n |-> s.n - c, x |-> {}]

-----------------------------------------------------------------------------
(* Results of the library calls *)

Ok(v) == [ok |-> TRUE, err |-> "", val |-> v]
Err(e) == [ok |-> FALSE, err |-> e, val |-> NilBytes]

-----------------------------------------------------------------------------
(* curve25519.X25519 *)

Basepoint == Bytes([k |-> "base"], ScalarSize)

\* a point of small order: X25519 rejects the all-zero output
LowOrderPoint == Bytes([k |-> "low"], ScalarSize)

\* the bits of a scalar X25519 overwrites (e[0] &= 248; e[31] &= 127; e[31] |= 64)
ClampedBits == {0, 1, 2, 8 * (ScalarSize - 1) + 6, 8 * (ScalarSize - 1) + 7}

Clamp(scalar) == [scalar EXCEPT !.x = @ \ ClampedBits]

\* the top bit of a u-coordinate is ignored
MaskTop(point) == [point EXCEPT !.x = @ \ {8 * (ScalarSize - 1) + 7}]

X25519(scalar, point) ==
    IF scalar.n # ScalarSize \/ point.n # ScalarSize
    THEN Err("bad scalar or point length")
    ELSE LET u == MaskTop(point)
             e == Clamp(scalar)
         IN  IF u = Basepoint
             THEN Ok(Bytes([k |-> "pub", sk |-> e], ScalarSize))
             ELSE IF u.t.k = "low" /\ u.x = {}
             THEN Err("bad input point: low order point")
             ELSE IF u.t.k = "pub" /\ u.x = {}
             THEN Ok(Bytes([k |-> "dh", pair |-> {e, u.t.sk}], ScalarSize))
             ELSE Ok(Bytes([k |-> "dhx", sk |-> e, pt |-> u], ScalarSize))

\* generateKeyPair, for user u: privateKey is u's own successful draw of
\* 32 bytes from rand.Reader
generateKeyPair(u) ==
    LET privateKey == Bytes([k |-> "key", of |-> u], ScalarSize)
    IN  [publicKey |-> X25519(privateKey, Basepoint).val, privateKey |-> privateKey]

-----------------------------------------------------------------------------
(* hkdf.Key, aes.NewCipher, cipher.NewGCM *)

\* hkdf.Key that is handed no secret: the key is derived from the salt alone
HkdfKeyNoSecret(secret, salt, keyLength) ==
    IF keyLength > 255 * HashSize
    THEN Err("hkdf: requested key length too large")
    ELSE Ok(Bytes([k |-> "hkdf", secret |-> NilBytes, salt |-> salt], keyLength))

\* hkdf.Key that is asked for a key of the size of the message key
HkdfKeyOfMessageKeySize(secret, salt, keyLength) ==
    Ok(Bytes([k |-> "hkdf", secret |-> secret, salt |-> salt], MessageKeySize))

\* hkdf.Key(hash, secret, salt, "", keyLength)
HkdfKey(secret, salt, keyLength) ==
    IF keyLength > 255 * HashSize
    THEN Err("hkdf: requested key length too large")
    ELSE Ok(Bytes([k |-> "hkdf", secret |-> secret, salt |-> salt], keyLength))

\* aes.NewCipher accepts 16, 24 or 32 byte keys
AesKeySizeOk(key) == key.n \in {16, 24, 32}

\* gcm.Seal(nonce, nonce, plaintext, nil): nonce || ciphertext || tag
Seal(key, nonce, plaintext) ==
    Bytes([k |-> "seal", key |-> key, nonce |-> nonce, pt |-> plaintext],
          nonce.n + plaintext.n + TagSize)

\* gcm.Open without the tag comparison (CTR decryption of what is there)
OpenUnauthenticated(key, nonce, ciphertext) ==
    IF ciphertext.n < TagSize
    THEN Err("cipher: message authentication failed")
    ELSE IF ciphertext.t.k = "ctag" /\ ciphertext.t.key = key /\ ciphertext.t.nonce = nonce
    THEN Ok([ciphertext.t.pt EXCEPT
                !.x = SymDiff(@, MaskSlice(ciphertext.x, 0, ciphertext.n - TagSize))])
    ELSE Ok(Bytes([k |-> "junk", key |-> key, nonce |-> nonce, ct |-> ciphertext],
                  ciphertext.n - TagSize))

\* gcm.Open(nil, nonce, ciphertext, nil)
Open(key, nonce, ciphertext) ==
    IF ciphertext.n < TagSize
    THEN Err("cipher: message authentication failed")
    ELSE IF /\ ciphertext.t.k = "ctag"
            /\ ciphertext.x = {}
            /\ ciphertext.t.key = key
            /\ ciphertext.t.nonce = nonce
    THEN Ok(ciphertext.t.pt)
    ELSE Err("cipher: message authentication failed")

-----------------------------------------------------------------------------
(* The message envelope, src/main.go *)

\* Message{}: the zero envelope returned with an error
EmptyMessage == [content |-> NilBytes, aesSecret |-> NilBytes, sharedSecretSalt |-> NilBytes]

\* return Message{}, nil
EncFailNoError(e) == [ok |-> TRUE, panic |-> FALSE, err |-> "", msg |-> EmptyMessage]

EncFail(e) == [ok |-> FALSE, panic |-> FALSE, err |-> e, msg |-> EmptyMessage]

\* EncryptMessage(content, publicKey, privateKey).  r is the number of the
\* first draw from rand.Reader; failAt = i > 0 makes the i-th draw fail.
EncryptMessage(content, publicKey, privateKey, r, failAt) ==
    IF failAt = 1 THEN EncFail("rand")
    ELSE
    LET messageAes == Rnd(r, MessageKeySize) IN
    IF ~AesKeySizeOk(messageAes)
    THEN [ok |-> FALSE, panic |-> TRUE, err |-> "aes: invalid key size", msg |-> EmptyMessage]
    ELSE IF failAt = 2 THEN EncFail("rand")
    ELSE
    LET messageNonce == Rnd(r + 1, NonceSize)
        messageCipherText == Seal(messageAes, messageNonce, content)
        rawShared == X25519(privateKey, publicKey)
    IN
    IF ~rawShared.ok THEN EncFail(rawShared.err)
    ELSE IF failAt = 3 THEN EncFail("rand")
    ELSE
    LET sharedSecretSalt == Rnd(r + 2, SaltSize)
        sharedSecret == HkdfKey(rawShared.val, sharedSecretSalt, HashSize)
    IN
    IF ~sharedSecret.ok THEN EncFail(sharedSecret.err)
    ELSE IF ~AesKeySizeOk(sharedSecret.val) THEN EncFail("aes: invalid key size")
    ELSE IF failAt = 4 THEN EncFail("rand")
    ELSE
    LET encKeyNonce == Rnd(r + 3, NonceSize)
        encKeyEncrypted == Seal(sharedSecret.val, encKeyNonce, messageAes)
    IN  [ok |-> TRUE, panic |-> FALSE, err |-> "",
         msg |-> [content |-> messageCipherText,
                  aesSecret |-> encKeyEncrypted,
                  sharedSecretSalt |-> sharedSecretSalt]]

DecFail(e) == [ok |-> FALSE, panic |-> FALSE, err |-> e, text |-> NilBytes]

DecPanic == [ok |-> FALSE, panic |-> TRUE, err |-> "slice bounds out of range", text |-> NilBytes]

\* DecryptMessage that hands its keys to X25519 in the wrong order
DecryptMessageSwapsKeys(message, publicKey, privateKey) ==
    LET rawShared == X25519(publicKey, privateKey) IN
    IF ~rawShared.ok THEN DecFail(rawShared.err)
    ELSE
    LET sharedSecret == HkdfKey(rawShared.val, message.sharedSecretSalt, HashSize) IN
    IF ~sharedSecret.ok THEN DecFail(sharedSecret.err)
    ELSE IF ~AesKeySizeOk(sharedSecret.val) THEN DecFail("aes: invalid key size")
    ELSE IF message.aesSecret.n < NonceSize THEN DecPanic
    ELSE
    LET messageAes == Open(sharedSecret.val,
                           SliceTo(message.aesSecret, NonceSize),
                           SliceFrom(message.aesSecret, NonceSize))
    IN
    IF ~messageAes.ok THEN DecFail(messageAes.err)
    ELSE IF ~AesKeySizeOk(messageAes.val) THEN DecFail("aes: invalid key size")
    ELSE IF message.content.n < NonceSize THEN DecPanic
    ELSE
    LET plainText == Open(messageAes.val,
                          SliceTo(message.content, NonceSize),
                          SliceFrom(message.content, NonceSize))
    IN
    IF ~plainText.ok THEN DecFail(plainText.err)
    ELSE [ok |-> TRUE, panic |-> FALSE, err |-> "", text |-> plainText.val]

\* DecryptMessage(message, publicKey, privateKey)
DecryptMessage(message, publicKey, privateKey) ==
    LET rawShared == X25519(privateKey, publicKey) IN
    IF ~rawShared.ok THEN DecFail(rawShared.err)
    ELSE
    LET sharedSecret == HkdfKey(rawShared.val, message.sharedSecretSalt, HashSize) IN
    IF ~sharedSecret.ok THEN DecFail(sharedSecret.err)
    ELSE IF ~AesKeySizeOk(sharedSecret.val) THEN DecFail("aes: invalid key size")
    ELSE IF message.aesSecret.n < NonceSize THEN DecPanic
    ELSE
    LET messageAes == Open(sharedSecret.val,
                           SliceTo(message.aesSecret, NonceSize),
                           SliceFrom(message.aesSecret, NonceSize))
    IN
    IF ~messageAes.ok THEN DecFail(messageAes.err)
    ELSE IF ~AesKeySizeOk(messageAes.val) THEN DecFail("aes: invalid key size")
    ELSE IF message.content.n < NonceSize THEN DecPanic
    ELSE
    LET plainText == Open(messageAes.val,
                          SliceTo(message.content, NonceSize),
                          SliceFrom(message.content, NonceSize))
    IN
    IF ~plainText.ok THEN DecFail(plainText.err)
    ELSE [ok |-> TRUE, panic |-> FALSE, err |-> "", text |-> plainText.val]

-----------------------------------------------------------------------------
(* Session tokens: the signed token, src/internal/core/jwt.go *)

\* time.Hour * 2 and time.Hour * 24 * 7, in seconds
AccessWindow == 2 * 3600
RefreshWindow == 24 * 7 * 3600

SignInIssuer == "https://auth.filagram.pl/signin"
RefreshIssuer == "https://auth.filagram.pl/refresh-token"

\* The two process-wide Ed25519 key pairs core.LoadKeys leaves in
\* core.Ed25519Keys.  A key is named by its pair; a signature made with the
\* private key of a pair verifies under the public key of that pair only.
Ed25519Keys ==
    [AccessPrivateKey |-> "access-pair", AccessPublicKey |-> "access-pair",
     RefreshPrivateKey |-> "refresh-pair", RefreshPublicKey |-> "refresh-pair"]

\* bson.ObjectID.MarshalJSON / Hex: the 24 hex digits of an id
ObjectIDHex(id) == [k |-> "hex24", id |-> id]

\* a subject that is not 24 hex digits, and the absent subject ("")
NotAnObjectID == [k |-> "text", id |-> 0]
NoSubject == [k |-> "empty", id |-> 0]

\* bson.ObjectIDFromHex
ObjectIDFromHex(str) ==
    IF str.k = "hex24" THEN [ok |-> TRUE, id |-> str.id] ELSE [ok |-> FALSE, id |-> 0]

\* jwt.MapClaims.  A numeric date of 0 stands for an absent (or zero) claim:
\* MapClaims returns a nil *NumericDate for both.  "" stands for an absent
\* (or non-string) iss / typ.
Claims(sub, iss, exp, iat, typ) ==
    [sub |-> sub, iss |-> iss, exp |-> exp, iat |-> iat, typ |-> typ]

NoClaims == Claims(NoSubject, "", 0, 0, "")

\* jwt.NewWithClaims(method, claims).SignedString(key): header.payload.signature
SignedString(alg, claims, privateKey) ==
    [k |-> "jwt", alg |-> alg, claims |-> claims,
     sig |-> [by |-> privateKey, alg |-> alg, over |-> claims]]

\* a string that is no compact JWT serialisation
NotAToken ==
    [k |-> "text", alg |-> "", claims |-> NoClaims,
     sig |-> [by |-> "", alg |-> "", over |-> NoClaims]]

\* NewAccess(id, iss); t1 and t2 are its two readings of time.Now()
NewAccess(id, iss, t1, t2) ==
    SignedString("EdDSA",
                 Claims(ObjectIDHex(id), iss, t1 + AccessWindow, t2, "access_token"),
                 Ed25519Keys.AccessPrivateKey)

\* NewRefresh(id, iss); t1 and t2 are its two readings of time.Now()
NewRefresh(id, iss, t1, t2) ==
    SignedString("EdDSA",
                 Claims(ObjectIDHex(id), iss, t1 + RefreshWindow, t2, "refresh_token"),
                 Ed25519Keys.RefreshPrivateKey)

VerFail(e) == [ok |-> FALSE, panic |-> FALSE, err |-> e, claims |-> NoClaims]

\* a nil *NumericDate is dereferenced
VerPanic == [ok |-> FALSE, panic |-> TRUE, err |-> "nil pointer dereference", claims |-> NoClaims]

\* jwt.Parse with a keyFunc that hands out publicKey whatever method the
\* header names
JwtParseAnyMethod(token, publicKey, now) ==
    IF token.k # "jwt" THEN VerFail("token is malformed")
    ELSE IF ~(/\ token.sig.by = publicKey
              /\ token.sig.alg = token.alg
              /\ token.sig.over = token.claims)
    THEN VerFail("token signature is invalid")
    ELSE IF token.claims.exp # 0 /\ ~(now < token.claims.exp)
    THEN VerFail("token has invalid claims: token is expired")
    ELSE [ok |-> TRUE, panic |-> FALSE, err |-> "", claims |-> token.claims]

\* jwt.Parse(token, keyFunc) of golang-jwt v5, where keyFunc refuses every
\* method but EdDSA and hands out publicKey: the string is split and decoded,
\* keyFunc is asked, the signature is verified, and the registered claims
\* are validated (exp, when present: now must be before it).
JwtParse(token, publicKey, now) ==
    IF token.k # "jwt" THEN VerFail("token is malformed")
    ELSE IF token.alg # "EdDSA" THEN VerFail("token is unverifiable: unexpected signing method")
    ELSE IF ~(/\ token.sig.by = publicKey
              /\ token.sig.alg = token.alg
              /\ token.sig.over = token.claims)
    THEN VerFail("token signature is invalid")
    ELSE IF token.claims.exp # 0 /\ ~(now < token.claims.exp)
    THEN VerFail("token has invalid claims: token is expired")
    ELSE [ok |-> TRUE, panic |-> FALSE, err |-> "", claims |-> token.claims]

\* VerifyAccess that never looks at exp: the parser is told to skip the
\* validation of the claims and the comparison with time.Now() is missing
VerifyAccessNoExpiry(token, tParse, tIat, tExp) ==
    LET parsedToken == JwtParse([token EXCEPT !.claims.exp = 0, !.sig.over.exp = 0],
                                Ed25519Keys.AccessPublicKey, tParse)
        claims == token.claims
    IN  IF ~parsedToken.ok THEN parsedToken
        ELSE IF claims.iss # RefreshIssuer /\ claims.iss # SignInIssuer
        THEN VerFail("invalid token")
        ELSE IF claims.iat = 0 THEN VerPanic
        ELSE IF claims.iat >= tIat THEN VerFail("invalid token")
        ELSE IF claims.typ # "access_token" THEN VerFail("invalid token")
        ELSE [ok |-> TRUE, panic |-> FALSE, err |-> "", claims |-> claims]

\* VerifyAccess that does not look at typ
VerifyAccessAnyTyp(token, tParse, tIat, tExp) ==
    LET parsedToken == JwtParse(token, Ed25519Keys.AccessPublicKey, tParse)
        claims == parsedToken.claims
    IN  IF ~parsedToken.ok THEN parsedToken
        ELSE IF claims.iss # RefreshIssuer /\ claims.iss # SignInIssuer
        THEN VerFail("invalid token")
        ELSE IF claims.iat = 0 THEN VerPanic
        ELSE IF claims.iat >= tIat THEN VerFail("invalid token")
        ELSE IF claims.exp = 0 THEN VerPanic
        ELSE IF claims.exp < tExp THEN VerFail("token expired")
        ELSE [ok |-> TRUE, panic |-> FALSE, err |-> "", claims |-> claims]

\* VerifyAccess(token); tParse, tIat and tExp are the readings of time.Now()
\* in jwt.Parse, in the iat check and in the exp check
VerifyAccess(token, tParse, tIat, tExp) ==
    LET parsedToken == JwtParse(token, Ed25519Keys.AccessPublicKey, tParse)
        claims == parsedToken.claims
    IN  IF ~parsedToken.ok THEN parsedToken
        ELSE IF claims.iss # RefreshIssuer /\ claims.iss # SignInIssuer
        THEN VerFail("invalid token")
        ELSE IF claims.iat = 0 THEN VerPanic
        ELSE IF claims.iat >= tIat THEN VerFail("invalid token")
        ELSE IF claims.exp = 0 THEN VerPanic
        ELSE IF claims.exp < tExp THEN VerFail("token expired")
        ELSE IF claims.typ # "access_token" THEN VerFail("invalid token")
        ELSE [ok |-> TRUE, panic |-> FALSE, err |-> "", claims |-> claims]

\* VerifyRefresh whose keyFunc hands out the access public key
VerifyRefreshAccessKey(token, tParse, tIat, tExp) ==
    LET parsedToken == JwtParse(token, Ed25519Keys.AccessPublicKey, tParse)
        claims == parsedToken.claims
    IN  IF ~parsedToken.ok THEN parsedToken
        ELSE IF claims.iss # SignInIssuer THEN VerFail("invalid token")
        ELSE IF claims.iat = 0 THEN VerPanic
        ELSE IF claims.iat >= tIat THEN VerFail("invalid token")
        ELSE IF claims.exp = 0 THEN VerPanic
        ELSE IF claims.exp < tExp THEN VerFail("token expired")
        ELSE [ok |-> TRUE, panic |-> FALSE, err |-> "", claims |-> claims]

\* VerifyRefresh with the issuer condition of VerifyAccess
VerifyRefreshTwoIssuers(token, tParse, tIat, tExp) ==
    LET parsedToken == JwtParse(token, Ed25519Keys.RefreshPublicKey, tParse)
        claims == parsedToken.claims
    IN  IF ~parsedToken.ok THEN parsedToken
        ELSE IF claims.iss # RefreshIssuer /\ claims.iss # SignInIssuer
        THEN VerFail("invalid token")
        ELSE IF claims.iat = 0 THEN VerPanic
        ELSE IF claims.iat >= tIat THEN VerFail("invalid token")
        ELSE IF claims.exp = 0 THEN VerPanic
        ELSE IF claims.exp < tExp THEN VerFail("token expired")
        ELSE [ok |-> TRUE, panic |-> FALSE, err |-> "", claims |-> claims]

\* VerifyRefresh(token), with its readings of time.Now() as for VerifyAccess
VerifyRefresh(token, tParse, tIat, tExp) ==
    LET parsedToken == JwtParse(token, Ed25519Keys.RefreshPublicKey, tParse)
        claims == parsedToken.claims
    IN  IF ~parsedToken.ok THEN parsedToken
        ELSE IF claims.iss # SignInIssuer THEN VerFail("invalid token")
        ELSE IF claims.iat = 0 THEN VerPanic
        ELSE IF claims.iat >= tIat THEN VerFail("invalid token")
        ELSE IF claims.exp = 0 THEN VerPanic
        ELSE IF claims.exp < tExp THEN VerFail("token expired")
        ELSE [ok |-> TRUE, panic |-> FALSE, err |-> "", claims |-> claims]

-----------------------------------------------------------------------------
(* Records of the calls of EncryptMessage and of the process *)

\* no EncryptMessage call yet
NoEnc ==
    [calls |-> 0, content |-> NilBytes, publicKey |-> NilBytes, privateKey |-> NilBytes,
     failAt |-> 0, out |-> EncFail(""), returned |-> <<>>]

\* a .env file without the two secrets
NoDotenv == [access |-> [k |-> "hex", key |-> NilBytes],
             refresh |-> [k |-> "hex", key |-> NilBytes]]

\* the process once main has loaded the keys and started its listeners
Serving ==
    [rev |-> 2, pc |-> "serving", sources |-> "ok", loads |-> 1, keys |-> TRUE,
     mqtt |-> TRUE, http |-> TRUE, served |-> 0, reads |-> 0, bad |-> FALSE,
     seen |-> {}, dotenv |-> NoDotenv]

-----------------------------------------------------------------------------
(* The envelope state machine: a sender encrypts, the stored envelope may  *)
(* have one bit changed, anyone decrypts with some pair of keys.           *)

Users == {"alice", "bob", "carol"}

KeyOf(u) == generateKeyPair(u)

Plaintexts == {Lit(len) : len \in 0 .. MaxPlainLen}

\* a reader that hands out the same bytes to every call
FirstDrawRepeats(c) == 1

\* the first draw of the c-th EncryptMessage call (every call has its own draws)
FirstDraw(c) == 4 * c + 1

NoSent == [ok |-> FALSE, content |-> NilBytes, from |-> "", to |-> "",
           msg |-> EmptyMessage, failAt |-> 0]

NoDec == [called |-> FALSE, pub |-> "", priv |-> "",
          out |-> DecFail("")]

EnvelopeInit ==
    /\ msg = EmptyMessage
    /\ sent = NoSent
    /\ dec = NoDec
    /\ calls = 0

\* msg, err := EncryptMessage(content, KeyOf(to).publicKey, KeyOf(from).privateKey)
\* for any content, sender and recipient.  A new message replaces the
\* envelope at hand and forgets the last DecryptMessage call, so the step
\* is taken from the states where that envelope is as it was returned and
\* unread: from the other states it leads to the same states.
Encrypt ==
    /\ calls < MaxCalls
    /\ msg = sent.msg
    /\ ~dec.called
    /\ \E content \in Plaintexts, from \in Users, to \in Users, failAt \in 0 .. 4 :
         LET r == EncryptMessage(content, KeyOf(to).publicKey, KeyOf(from).privateKey,
                                 FirstDraw(calls), failAt)
         IN  /\ ~r.panic
             /\ msg' = r.msg
             /\ sent' = [ok |-> r.ok, content |-> content, from |-> from, to |-> to,
                         msg |-> r.msg, failAt |-> failAt]
    /\ dec' = NoDec
    /\ calls' = calls + 1
    /\ UNCHANGED tokenVars
    /\ UNCHANGED processVars
    /\ UNCHANGED handlerVars
    /\ UNCHANGED chatVars

Fields == {"content", "aesSecret", "sharedSecretSalt"}

\* one bit of one field of the envelope EncryptMessage returned is inverted
Tamper ==
    /\ sent.ok
    /\ msg = sent.msg
    /\ \E f \in Fields : \E byte \in 0 .. msg[f].n - 1 : \E bit \in 0 .. MaxBit :
         /\ bit < 8
         /\ msg' = [msg EXCEPT ![f] = FlipBit(@, 8 * byte + bit)]
    /\ dec' = NoDec
    /\ UNCHANGED <<sent, calls>>
    /\ UNCHANGED tokenVars
    /\ UNCHANGED processVars
    /\ UNCHANGED handlerVars
    /\ UNCHANGED chatVars

\* a DecryptMessage that opens the content into the buffer of the envelope
\* (Open(ciphertext[:0], ...)): the plaintext overwrites the ciphertext
DecryptInPlace ==
    /\ sent.ok
    /\ \E pub \in Users, priv \in Users :
         LET out == DecryptMessage(msg, KeyOf(pub).publicKey, KeyOf(priv).privateKey)
         IN  /\ dec' = [called |-> TRUE, pub |-> pub, priv |-> priv, out |-> out]
             /\ msg' = IF out.ok
                        THEN [msg EXCEPT !.content =
                                 Bytes([k |-> "overwritten", by |-> out.text], @.n)]
                        ELSE msg
    /\ UNCHANGED <<sent, calls>>
    /\ UNCHANGED tokenVars
    /\ UNCHANGED processVars
    /\ UNCHANGED handlerVars
    /\ UNCHANGED chatVars

\* text, err := DecryptMessage(msg, KeyOf(pub).publicKey, KeyOf(priv).privateKey)
\* with the public key of any user and the private key of any user
Decrypt ==
    /\ sent.ok
    /\ \E pub \in Users, priv \in Users :
         dec' = [called |-> TRUE, pub |-> pub, priv |-> priv,
                 out |-> DecryptMessage(msg, KeyOf(pub).publicKey, KeyOf(priv).privateKey)]
    /\ UNCHANGED <<msg, sent, calls>>
    /\ UNCHANGED tokenVars
    /\ UNCHANGED processVars
    /\ UNCHANGED handlerVars
    /\ UNCHANGED chatVars

EnvNext ==
    \/ Encrypt
    \/ Tamper
    \/ Decrypt

-----------------------------------------------------------------------------
(* EncryptMessage as a function: it is called, several times, with any     *)
(* byte strings as keys, and any of its draws from rand.Reader may fail.   *)

\* a byte string one byte short of a key
ShortKey == Bytes([k |-> "key", of |-> "short"], ScalarSize - 1)

PublicKeyInputs == {KeyOf("alice").publicKey, KeyOf("bob").publicKey, LowOrderPoint, ShortKey}

PrivateKeyInputs == {KeyOf("alice").privateKey, KeyOf("bob").privateKey, ShortKey}

\* msg, err := EncryptMessage(content, publicKey, privateKey); the envelopes
\* returned without an error are kept in the order of the calls
EncryptAny ==
    /\ enc.calls < MaxCalls
    /\ \E content \in Plaintexts, publicKey \in PublicKeyInputs,
          privateKey \in PrivateKeyInputs, failAt \in 0 .. 4 :
         LET out == EncryptMessage(content, publicKey, privateKey,
                                   FirstDraw(enc.calls), failAt)
         IN  enc' = [calls |-> enc.calls + 1, content |-> content,
                     publicKey |-> publicKey, privateKey |-> privateKey,
                     failAt |-> failAt, out |-> out,
                     returned |-> IF out.ok /\ out.err = ""
                                  THEN Append(enc.returned, out.msg)
                                  ELSE enc.returned]
    /\ UNCHANGED envelopeVars
    /\ UNCHANGED tokenVars
    /\ UNCHANGED proc
    /\ UNCHANGED handlerVars
    /\ UNCHANGED chatVars

EncNext == EncryptAny

-----------------------------------------------------------------------------
(* DecryptMessage as a function: it is handed envelopes whose fields were  *)
(* cut short, down to the empty one.                                       *)

\* the envelope EncryptMessage returns to alice for a message to bob
GoodSent ==
    [ok |-> TRUE, content |-> Lit(MaxPlainLen), from |-> "alice", to |-> "bob",
     msg |-> EncryptMessage(Lit(MaxPlainLen), KeyOf("bob").publicKey,
                            KeyOf("alice").privateKey, FirstDraw(0), 0).msg,
     failAt |-> 0]

\* the lengths a field is cut to: nothing, one byte less than a nonce, a
\* nonce, a nonce and one byte less than a tag
CutLengths == {0, NonceSize - 1, NonceSize, NonceSize + TagSize - 1}

\* s, its first bytes, and the nil slice
Cuts(s) == {s, NilBytes} \cup {SliceTo(s, c) : c \in {l \in CutLengths : l < s.n}}

Envelopes ==
    {[content |-> c, aesSecret |-> a, sharedSecretSalt |-> s] :
        c \in Cuts(GoodSent.msg.content), a \in Cuts(GoodSent.msg.aesSecret),
        s \in Cuts(GoodSent.msg.sharedSecretSalt)}

\* text, err := DecryptMessage(msg, KeyOf(pub).publicKey, KeyOf(priv).privateKey)
\* on the envelope handed in; a panic ends the caller
DecryptAny ==
    /\ ~dec.called
    /\ \E pub \in Users, priv \in Users :
         dec' = [called |-> TRUE, pub |-> pub, priv |-> priv,
                 out |-> DecryptMessage(msg, KeyOf(pub).publicKey, KeyOf(priv).privateKey)]
    /\ UNCHANGED <<msg, sent, calls>>
    /\ UNCHANGED tokenVars
    /\ UNCHANGED processVars
    /\ UNCHANGED handlerVars
    /\ UNCHANGED chatVars

DecNext == DecryptAny

-----------------------------------------------------------------------------
(* State of the token machines *)

\* a transport secret: hex-encoded AES key material in the environment
Secret(i) == Bytes([k |-> "secret", id |-> i], 32)

\* the value of an environment variable holding the hex digits of key
HexOf(key) == [k |-> "hex", key |-> key]

\* a value that is not hex digits
NotHex == [k |-> "text", key |-> NilBytes]

\* os.Getenv of a variable that is not set: ""
Unset == HexOf(NilBytes)

\* hex.DecodeString
HexDecodeString(str) == IF str.k = "hex" THEN Ok(str.key) ELSE Err("encoding/hex: invalid byte")

\* base64.StdEncoding.EncodeToString
EncodeToString(bytes) == [k |-> "b64", of |-> bytes]

\* a string with a character outside the base64 alphabet
NotBase64 == [k |-> "text", of |-> NilBytes]

\* the empty string
EmptyString == EncodeToString(NilBytes)

\* base64.StdEncoding.DecodeString
DecodeString(str) ==
    IF str.k = "b64" THEN Ok(str.of) ELSE Err("illegal base64 data")

\* []byte(rawToken)
BytesOfString(token) == Bytes([k |-> "str", s |-> token], JwtLen)

\* string(decryptedToken)
StringOfBytes(bytes) ==
    IF bytes.t.k = "str" /\ bytes.x = {} THEN bytes.t.s ELSE NotAToken

\* core.JWTEncrypter.Encrypt(plaintext, key): nonce || AEAD_Seal(key, nonce,
\* plaintext) with a fresh 12-byte nonce, the draw r
EncrypterEncrypt(plaintext, key, r) ==
    IF ~AesKeySizeOk(key) THEN Err("aes: invalid key size")
    ELSE Ok(Seal(key, Rnd(r, NonceSize), plaintext))

\* core.JWTEncrypter.Decrypt(data, key): the nonce is split off and the rest
\* opened under key
EncrypterDecrypt(data, key) ==
    IF ~AesKeySizeOk(key) THEN Err("aes: invalid key size")
    ELSE IF data.n < NonceSize THEN Err("ciphertext too short")
    ELSE Open(key, SliceTo(data, NonceSize), SliceFrom(data, NonceSize))

\* the token at hand: who made it (src), with which function (kind), for
\* which id, the signed token, its wire form (base64 of the encrypted token)
\* and the key it was encrypted under; expired records that a verification
\* has turned it down as expired, valid that one on its path has accepted
\* it, newer how many tokens were issued after that
NoHeld ==
    [src |-> "none", kind |-> "", id |-> 0, jwt |-> NotAToken, wire |-> EmptyString,
     key |-> NilBytes, expired |-> FALSE, valid |-> FALSE, newer |-> 0]

\* the value of an Authorization header: a scheme prefix and what follows it;
\* Header.Get returns "" when the header is absent
HeaderValue(prefix, rest) == [prefix |-> prefix, rest |-> rest]

NoHeader == HeaderValue("", EmptyString)

\* a request: whether it came over TLS, and its Authorization header
Request(tls, authorization) == [tls |-> tls, authorization |-> authorization]

NoRequest == Request(FALSE, NoHeader)

NoLast ==
    [op |-> "none", t1 |-> 0, t2 |-> 0, t3 |-> 0, out |-> VerFail(""),
     step |-> "", status |-> 0, next |-> FALSE, user |-> 0, req |-> NoRequest]

\* no handler has been called: no inputs, and a response without tokens
NoRsp ==
    [op |-> "none", status |-> 0, step |-> "", id |-> 0,
     access |-> EmptyString, refresh |-> EmptyString, in |-> [none |-> TRUE]]

\* no /ws connection
NoWs == [pc |-> "none", sent |-> <<>>, read |-> <<>>, written |-> <<>>, err |-> ""]

\* no chat server and no API server
NoSrv == [pc |-> "none"]
NoApi == [pc |-> "none"]

\* the clock readings of one call that starts at t: the clock does not run
\* backwards and gains at most MaxSkew seconds between two readings
Readings(t) ==
    {r \in (t .. t + MaxSkew) \X (t .. t + MaxSkew) \X (t .. t + MaxSkew) :
        r[1] = t /\ r[1] <= r[2] /\ r[2] <= r[3] /\ r[3] - r[2] <= MaxSkew}

-----------------------------------------------------------------------------
(* VerifyAccess and VerifyRefresh as functions: any token is handed to     *)
(* them, whoever made it.                                                  *)

Ids == {1, 2}

Issuers == {SignInIssuer, RefreshIssuer, "https://evil.example/", ""}

Types == {"access_token", "refresh_token", ""}

Signers == {Ed25519Keys.AccessPrivateKey, Ed25519Keys.RefreshPrivateKey, "other-pair"}

\* numeric dates around the clock; 0 is the absent claim
Dates == {0} \cup (StartClock - 1 .. StartClock + MaxSkew + 1)

\* a token signed by signer over claims; when ~intact its payload was
\* changed after signing
Forged(alg, signer, intact, claims) ==
    LET token == SignedString(alg, claims, signer)
    IN  IF intact THEN token ELSE [token EXCEPT !.sig.over = NoClaims]

\* the tokens handed to the two functions
TokenInputs ==
    {Forged(alg, signer, intact, Claims(ObjectIDHex(1), iss, exp, iat, typ)) :
        alg \in {"EdDSA", "HS256"}, signer \in Signers, intact \in BOOLEAN,
        iss \in Issuers, exp \in Dates, iat \in Dates, typ \in Types}
    \cup {NotAToken}

JwtInit ==
    /\ EnvelopeInit
    /\ clock = StartClock
    /\ env = [access |-> HexOf(Secret(1)), refresh |-> HexOf(Secret(2))]
    /\ held \in {[NoHeld EXCEPT !.src = "forged", !.jwt = token] : token \in TokenInputs}
    /\ last = NoLast
    /\ enc = NoEnc
    /\ rsp = NoRsp
    /\ ws = NoWs
    /\ srv = NoSrv
    /\ api = NoApi
    /\ proc = Serving

\* claims, err := core.JWTFactory.VerifyAccess(held.jwt)
CallVerifyAccess ==
    /\ held.src = "forged"
    /\ \E r \in Readings(clock) :
         last' = [NoLast EXCEPT !.op = "VerifyAccess", !.t1 = r[1], !.t2 = r[2], !.t3 = r[3],
                                !.out = VerifyAccess(held.jwt, r[1], r[2], r[3])]
    /\ UNCHANGED <<clock, env, held>>
    /\ UNCHANGED envelopeVars
    /\ UNCHANGED processVars
    /\ UNCHANGED handlerVars
    /\ UNCHANGED chatVars

\* claims, err := core.JWTFactory.VerifyRefresh(held.jwt)
CallVerifyRefresh ==
    /\ held.src = "forged"
    /\ \E r \in Readings(clock) :
         last' = [NoLast EXCEPT !.op = "VerifyRefresh", !.t1 = r[1], !.t2 = r[2], !.t3 = r[3],
                                !.out = VerifyRefresh(held.jwt, r[1], r[2], r[3])]
    /\ UNCHANGED <<clock, env, held>>
    /\ UNCHANGED envelopeVars
    /\ UNCHANGED processVars
    /\ UNCHANGED handlerVars
    /\ UNCHANGED chatVars

JwtNext ==
    \/ CallVerifyAccess
    \/ CallVerifyRefresh

SpecJwt == JwtInit /\ [][JwtNext]_vars

-----------------------------------------------------------------------------
(* The environment and the .env file *)

\* godotenv.Overload(): the values of the file replace those of the environment
DotenvOverload(environ, file) ==
    [access |-> IF file.access = Unset THEN environ.access ELSE file.access,
     refresh |-> IF file.refresh = Unset THEN environ.refresh ELSE file.refresh]

\* godotenv.Load(): the variables of the .env file are set in the
\* environment, those that are already set keep their value
DotenvLoad(environ, file) ==
    [access |-> IF environ.access = Unset THEN file.access ELSE environ.access,
     refresh |-> IF environ.refresh = Unset THEN file.refresh ELSE environ.refresh]

\* the .env file: none, one with other secrets, one with a value that is no hex
DotenvFiles ==
    {NoDotenv,
     [access |-> HexOf(Secret(2)), refresh |-> HexOf(Secret(1))],
     [access |-> HexOf(Secret(1)), refresh |-> NotHex]}

\* a value of the environment is the hex form of an AES key
SecretUsable(value) ==
    /\ HexDecodeString(value).ok
    /\ AesKeySizeOk(HexDecodeString(value).val)

-----------------------------------------------------------------------------
(* The life of one token: it is issued, time passes, and its wire form is  *)
(* presented to the access path and to the refresh path.                   *)

SecretValues == {HexOf(Secret(1)), HexOf(Secret(2)), NotHex, Unset}

EnvConfigs == {[access |-> a, refresh |-> r] : a \in SecretValues, r \in SecretValues}

\* os.Getenv("JWT_ACCESS_SECRET") on the access path, os.Getenv("JWT_REFRESH_SECRET")
\* on the refresh path
SecretOf(environ, isAccess) == IF isAccess THEN environ.access ELSE environ.refresh

\* A token is signed, encrypted under the secret of its kind and base64
\* encoded, as SignIn and RefreshToken do.  t1, t2 are the clock readings of
\* NewAccess / NewRefresh, r the draw of the nonce.
IssueToken(isAccess, id, iss, environ, t1, t2, r) ==
    LET rawToken == IF isAccess THEN NewAccess(id, iss, t1, t2) ELSE NewRefresh(id, iss, t1, t2)
        encKey == HexDecodeString(SecretOf(environ, isAccess))
        encToken == EncrypterEncrypt(BytesOfString(rawToken), encKey.val, r)
    IN  IF ~encKey.ok \/ ~encToken.ok THEN NoHeld
        ELSE [src |-> "issued", kind |-> IF isAccess THEN "access" ELSE "refresh",
              id |-> id, jwt |-> rawToken, wire |-> EncodeToString(encToken.val),
              key |-> encKey.val, expired |-> FALSE, valid |-> FALSE, newer |-> 0]

\* The wire token is base64 decoded, decrypted under the secret of the path
\* and verified, as JWTRefreshAuth does with VerifyRefresh (and the access
\* path with JWT_ACCESS_SECRET and VerifyAccess).
DecryptVerify(str, isAccess, environ, t1, t2, t3) ==
    LET decodedToken == DecodeString(str)
        key == HexDecodeString(SecretOf(environ, isAccess))
        decryptedToken == EncrypterDecrypt(decodedToken.val, key.val)
        token == StringOfBytes(decryptedToken.val)
    IN  IF ~decodedToken.ok THEN [step |-> "base64", out |-> VerFail("invalid token")]
        ELSE IF ~key.ok THEN [step |-> "hex", out |-> VerFail("encryption failed")]
        ELSE IF ~decryptedToken.ok THEN [step |-> "decrypt", out |-> VerFail("encryption failed")]
        ELSE IF isAccess
        THEN [step |-> "verify", out |-> VerifyAccess(token, t1, t2, t3)]
        ELSE [step |-> "verify", out |-> VerifyRefresh(token, t1, t2, t3)]

ExpiredErrors == {"token expired", "token has invalid claims: token is expired"}

\* the model follows the clock next to the iat and next to the exp of the
\* token at hand
Horizon == MaxSkew + 1

InZone(t) ==
    \/ t >= held.jwt.claims.iat - Horizon /\ t <= held.jwt.claims.iat + Horizon
    \/ t >= held.jwt.claims.exp - Horizon /\ t <= held.jwt.claims.exp + Horizon

TokInit ==
    /\ EnvelopeInit
    /\ clock = StartClock
    /\ env \in EnvConfigs
    /\ held = NoHeld
    /\ last = NoLast
    /\ enc = NoEnc
    /\ rsp = NoRsp
    /\ ws = NoWs
    /\ srv = NoSrv
    /\ api = NoApi
    /\ proc \in {[Serving EXCEPT !.dotenv = file] :
                    file \in {f \in DotenvFiles : f.refresh # NotHex}}

\* a token of either kind is issued for any id with any issuer; SignIn
\* calls godotenv.Load() before it reads the secrets
Issue(isAccess) ==
    /\ held.src = "none"
    /\ \E id \in Ids, iss \in Issuers \ {""}, r \in Readings(clock) :
         LET environ == IF iss = SignInIssuer THEN DotenvLoad(env, proc.dotenv) ELSE env
             token == IssueToken(isAccess, id, iss, environ, r[1], r[2], 1)
         IN  /\ token.src = "issued"
             /\ held' = token
             /\ env' = environ
             /\ clock' = r[2]
    /\ last' = NoLast
    /\ UNCHANGED envelopeVars
    /\ UNCHANGED processVars
    /\ UNCHANGED handlerVars
    /\ UNCHANGED chatVars

\* SignIn of the same user once the held token has been accepted:
\* godotenv.Load(), then a new access token and a new refresh token are issued
SignInAgain ==
    /\ held.src = "issued"
    /\ held.valid
    /\ held.newer < MaxNewer
    /\ env' = DotenvLoad(env, proc.dotenv)
    /\ \E r \in Readings(clock) :
         LET accessToken == IssueToken(TRUE, held.id, SignInIssuer, env', r[1], r[2], 2)
             refreshToken == IssueToken(FALSE, held.id, SignInIssuer, env', r[2], r[3], 3)
         IN  /\ InZone(r[3])
             /\ clock' = r[3]
             /\ held' = IF accessToken.src = "issued" /\ refreshToken.src = "issued"
                        THEN [held EXCEPT !.newer = @ + 1] ELSE held
    /\ last' = NoLast
    /\ UNCHANGED envelopeVars
    /\ UNCHANGED processVars
    /\ UNCHANGED handlerVars
    /\ UNCHANGED chatVars

\* RefreshToken for the same user once the held token has been accepted: a
\* new access token with the issuer refresh-token is issued
RefreshAgain ==
    /\ held.src = "issued"
    /\ held.valid
    /\ held.newer < MaxNewer
    /\ \E r \in Readings(clock) :
         LET accessToken == IssueToken(TRUE, held.id, RefreshIssuer, env, r[1], r[2], 2)
         IN  /\ InZone(r[2])
             /\ clock' = r[2]
             /\ held' = IF accessToken.src = "issued"
                        THEN [held EXCEPT !.newer = @ + 1] ELSE held
    /\ last' = NoLast
    /\ UNCHANGED env
    /\ UNCHANGED envelopeVars
    /\ UNCHANGED processVars
    /\ UNCHANGED handlerVars
    /\ UNCHANGED chatVars

\* time passes: a second, or the time up to shortly before the token's exp
Tick ==
    /\ held.src = "issued"
    /\ \E t \in {clock + 1, held.jwt.claims.exp - Horizon} :
         /\ t > clock
         /\ InZone(t)
         /\ clock' = t
    /\ last' = NoLast
    /\ UNCHANGED <<env, held>>
    /\ UNCHANGED envelopeVars
    /\ UNCHANGED processVars
    /\ UNCHANGED handlerVars
    /\ UNCHANGED chatVars

\* the wire token is presented to the access path or to the refresh path
Present(isAccess) ==
    /\ held.src = "issued"
    /\ \E r \in Readings(clock) :
         LET res == DecryptVerify(held.wire, isAccess, env, r[1], r[2], r[3])
         IN  /\ InZone(r[3])
             /\ last' = [NoLast EXCEPT
                            !.op = IF isAccess THEN "access path" ELSE "refresh path",
                            !.t1 = r[1], !.t2 = r[2], !.t3 = r[3],
                            !.step = res.step, !.out = res.out]
             /\ held' = [held EXCEPT
                            !.expired = @ \/ res.out.err \in ExpiredErrors,
                            !.valid = @ \/ (res.out.ok /\ isAccess = (held.kind = "access"))]
             /\ clock' = r[3]
    /\ UNCHANGED env
    /\ UNCHANGED envelopeVars
    /\ UNCHANGED processVars
    /\ UNCHANGED handlerVars
    /\ UNCHANGED chatVars

TokNext ==
    \/ Issue(TRUE)
    \/ Issue(FALSE)
    \/ Tick
    \/ Present(TRUE)
    \/ Present(FALSE)
    \/ SignInAgain
    \/ RefreshAgain

SpecTok == TokInit /\ [][TokNext]_vars

-----------------------------------------------------------------------------
(* The middleware of the protected routes,                                 *)
(* src/internal/api/middleware/protected_auth.go                           *)

\* strings.CutPrefix(s, prefix)
CutPrefix(s, prefix) ==
    IF s.prefix = prefix /\ prefix # ""
    THEN [after |-> s.rest, found |-> TRUE]
    ELSE [after |-> s, found |-> FALSE]

\* core.JWTFactory.ParseToken(token, isAccess): the string is parsed as a
\* signed token and its signature verified under AccessPublicKey if isAccess,
\* else under RefreshPublicKey; it fails if the algorithm is not EdDSA or the
\* signature does not verify
ParseToken(token, isAccess) ==
    LET publicKey == IF isAccess THEN Ed25519Keys.AccessPublicKey
                     ELSE Ed25519Keys.RefreshPublicKey
    IN  IF token.k # "jwt" THEN VerFail("TokenMalformed")
        ELSE IF token.alg # "EdDSA" THEN VerFail("TokenSignatureInvalid")
        ELSE IF ~(/\ token.sig.by = publicKey
                  /\ token.sig.alg = token.alg
                  /\ token.sig.over = token.claims)
        THEN VerFail("TokenSignatureInvalid")
        ELSE [ok |-> TRUE, panic |-> FALSE, err |-> "", claims |-> token.claims]

\* core.JWTFactory.VerifyClaims(claims, isAccess) at the time now: iss is a
\* known issuer (two for access tokens, one for refresh tokens), iat is
\* strictly less than now, exp is greater than or equal to now, typ is the
\* type of the expected kind
VerifyClaims(claims, isAccess, now) ==
    LET issuers == IF isAccess THEN {SignInIssuer, RefreshIssuer} ELSE {SignInIssuer}
        typ == IF isAccess THEN "access_token" ELSE "refresh_token"
    IN  IF claims.iss \notin issuers THEN Err("TokenIssuerMismatch")
        ELSE IF claims.iat = 0 \/ ~(claims.iat < now) THEN Err("TokenMalformed")
        ELSE IF claims.exp = 0 \/ ~(claims.exp >= now) THEN Err("TokenExpired")
        ELSE IF claims.typ # typ THEN Err("TokenTypeMismatch")
        ELSE Ok(claims)

\* return &echo.HTTPError{Code: code, ...}: next is not called
HTTPError(code, step) == [status |-> code, step |-> step, next |-> FALSE, user |-> 0]

\* c.Set("user", &models.User{Id: rawUserId}); return next(c)
CallNext(rawUserId) == [status |-> 0, step |-> "next", next |-> TRUE, user |-> rawUserId]

\* JWTRefreshAuth that decrypts under JWT_ACCESS_SECRET
JWTRefreshAuthAccessSecret(c, environ, now) ==
    LET cut == CutPrefix(c.authorization, "Bearer ")
        decodedToken == DecodeString(cut.after)
        key == HexDecodeString(environ.access)
        decryptedToken == EncrypterDecrypt(decodedToken.val, key.val)
        claims == ParseToken(StringOfBytes(decryptedToken.val), FALSE)
        verified == VerifyClaims(claims.claims, FALSE, now)
        rawUserId == ObjectIDFromHex(claims.claims.sub)
    IN  IF ~c.tls THEN HTTPError(403, "tls")
        ELSE IF cut.after = EmptyString \/ ~cut.found THEN HTTPError(403, "header")
        ELSE IF ~decodedToken.ok THEN HTTPError(403, "base64")
        ELSE IF ~key.ok THEN HTTPError(500, "hex")
        ELSE IF ~decryptedToken.ok THEN HTTPError(403, "decrypt")
        ELSE IF ~claims.ok THEN HTTPError(403, "parse")
        ELSE IF ~verified.ok THEN HTTPError(400, "claims")
        ELSE IF ~rawUserId.ok THEN HTTPError(403, "subject")
        ELSE CallNext(rawUserId.id)

\* JWTRefreshAuth(next), applied to the request c; now is the time VerifyClaims
\* reads
JWTRefreshAuth(c, environ, now) ==
    LET cut == CutPrefix(c.authorization, "Bearer ")
        decodedToken == DecodeString(cut.after)
        key == HexDecodeString(environ.refresh)
        decryptedToken == EncrypterDecrypt(decodedToken.val, key.val)
        claims == ParseToken(StringOfBytes(decryptedToken.val), FALSE)
        verified == VerifyClaims(claims.claims, FALSE, now)
        rawUserId == ObjectIDFromHex(claims.claims.sub)
    IN  IF ~c.tls THEN HTTPError(403, "tls")
        ELSE IF cut.after = EmptyString \/ ~cut.found THEN HTTPError(403, "header")
        ELSE IF ~decodedToken.ok THEN HTTPError(403, "base64")
        ELSE IF ~key.ok THEN HTTPError(500, "hex")
        ELSE IF ~decryptedToken.ok THEN HTTPError(403, "decrypt")
        ELSE IF ~claims.ok THEN HTTPError(403, "parse")
        ELSE IF ~verified.ok THEN HTTPError(400, "claims")
        ELSE IF ~rawUserId.ok THEN HTTPError(403, "subject")
        ELSE CallNext(rawUserId.id)

\* JWTAccessAuth that goes on when VerifyClaims has failed
JWTAccessAuthIgnoresClaims(c, environ, now) ==
    LET cut == CutPrefix(c.authorization, "Bearer ")
        decodedToken == DecodeString(cut.after)
        key == HexDecodeString(environ.access)
        decryptedToken == EncrypterDecrypt(decodedToken.val, key.val)
        claims == ParseToken(StringOfBytes(decryptedToken.val), TRUE)
        verified == VerifyClaims(claims.claims, TRUE, now)
        rawUserId == ObjectIDFromHex(claims.claims.sub)
    IN  IF ~c.tls THEN HTTPError(403, "tls")
        ELSE IF cut.after = EmptyString \/ ~cut.found THEN HTTPError(403, "header")
        ELSE IF ~decodedToken.ok THEN HTTPError(403, "base64")
        ELSE IF ~key.ok THEN HTTPError(500, "hex")
        ELSE IF ~decryptedToken.ok THEN HTTPError(403, "decrypt")
        ELSE IF ~claims.ok THEN HTTPError(403, "parse")
        ELSE IF ~rawUserId.ok THEN HTTPError(403, "subject")
        ELSE CallNext(rawUserId.id)

\* JWTAccessAuth(next), applied to the request c
JWTAccessAuth(c, environ, now) ==
    LET cut == CutPrefix(c.authorization, "Bearer ")
        decodedToken == DecodeString(cut.after)
        key == HexDecodeString(environ.access)
        decryptedToken == EncrypterDecrypt(decodedToken.val, key.val)
        claims == ParseToken(StringOfBytes(decryptedToken.val), TRUE)
        verified == VerifyClaims(claims.claims, TRUE, now)
        rawUserId == ObjectIDFromHex(claims.claims.sub)
    IN  IF ~c.tls THEN HTTPError(403, "tls")
        ELSE IF cut.after = EmptyString \/ ~cut.found THEN HTTPError(403, "header")
        ELSE IF ~decodedToken.ok THEN HTTPError(403, "base64")
        ELSE IF ~key.ok THEN HTTPError(500, "hex")
        ELSE IF ~decryptedToken.ok THEN HTTPError(403, "decrypt")
        ELSE IF ~claims.ok THEN HTTPError(403, "parse")
        ELSE IF ~verified.ok THEN HTTPError(400, "claims")
        ELSE IF ~rawUserId.ok THEN HTTPError(403, "subject")
        ELSE CallNext(rawUserId.id)

\* the token of a request: any signed token, encrypted under any secret
SignatureCases ==
    {<<"EdDSA", Ed25519Keys.AccessPrivateKey, TRUE>>,
     <<"EdDSA", Ed25519Keys.RefreshPrivateKey, TRUE>>,
     <<"EdDSA", Ed25519Keys.AccessPrivateKey, FALSE>>,
     <<"HS256", Ed25519Keys.RefreshPrivateKey, TRUE>>}

\* <<iat, exp>> around the clock; 0 is the absent claim
DateCases ==
    {<<StartClock - 1, StartClock + MaxSkew + 1>>, <<StartClock, StartClock + MaxSkew + 1>>,
     <<StartClock - 1, StartClock>>, <<StartClock - 1, StartClock - 1>>,
     <<0, StartClock + MaxSkew + 1>>, <<StartClock - 1, 0>>}

Subjects == {ObjectIDHex(1), ObjectIDHex(2), NotAnObjectID}

AuthTokens ==
    {Forged(sc[1], sc[2], sc[3], Claims(sub, iss, d[2], d[1], typ)) :
        sc \in SignatureCases, sub \in Subjects, iss \in Issuers \ {""},
        d \in DateCases, typ \in {"access_token", "refresh_token"}}
    \cup {NotAToken}

Crafted(token, encKey) ==
    [NoHeld EXCEPT !.src = "crafted", !.jwt = token, !.key = encKey,
                   !.wire = EncodeToString(EncrypterEncrypt(BytesOfString(token), encKey, 1).val)]

\* the Authorization headers of a request that carries the token at hand
Headers ==
    {NoHeader,
     HeaderValue("Bearer ", held.wire),
     HeaderValue("Basic ", held.wire),
     HeaderValue("Bearer ", EmptyString),
     HeaderValue("Bearer ", NotBase64),
     HeaderValue("Bearer ", EncodeToString(FlipBit(DecodeString(held.wire).val, 8 * NonceSize))),
     HeaderValue("Bearer ", EncodeToString(SliceTo(DecodeString(held.wire).val, NonceSize - 1)))}

Requests ==
    {Request(FALSE, HeaderValue("Bearer ", held.wire))}
    \cup {Request(TRUE, h) : h \in Headers}

AuthInit ==
    /\ EnvelopeInit
    /\ clock = StartClock
    /\ env \in EnvConfigs
    /\ held \in {Crafted(token, Secret(i)) : token \in AuthTokens, i \in {1, 2}}
    /\ last = NoLast
    /\ enc = NoEnc
    /\ rsp = NoRsp
    /\ ws = NoWs
    /\ srv = NoSrv
    /\ api = NoApi
    /\ proc = Serving

\* a request to a route behind JWTAccessAuth; what it brings about depends on
\* the request, the environment and the time only, so one request is followed
AccessRequest ==
    /\ held.src = "crafted"
    /\ last.op = "none"
    /\ \E c \in Requests, now \in clock .. clock + MaxSkew :
         LET res == JWTAccessAuth(c, env, now)
         IN  last' = [NoLast EXCEPT !.op = "JWTAccessAuth", !.req = c, !.t1 = now,
                                    !.status = res.status, !.step = res.step,
                                    !.next = res.next, !.user = res.user]
    /\ UNCHANGED <<clock, env, held>>
    /\ UNCHANGED envelopeVars
    /\ UNCHANGED processVars
    /\ UNCHANGED handlerVars
    /\ UNCHANGED chatVars

\* a request to the route behind JWTRefreshAuth
RefreshRequest ==
    /\ held.src = "crafted"
    /\ last.op = "none"
    /\ \E c \in Requests, now \in clock .. clock + MaxSkew :
         LET res == JWTRefreshAuth(c, env, now)
         IN  last' = [NoLast EXCEPT !.op = "JWTRefreshAuth", !.req = c, !.t1 = now,
                                    !.status = res.status, !.step = res.step,
                                    !.next = res.next, !.user = res.user]
    /\ UNCHANGED <<clock, env, held>>
    /\ UNCHANGED envelopeVars
    /\ UNCHANGED processVars
    /\ UNCHANGED handlerVars
    /\ UNCHANGED chatVars

AuthNext ==
    \/ AccessRequest
    \/ RefreshRequest

SpecAuth == AuthInit /\ [][AuthNext]_vars

-----------------------------------------------------------------------------
(* POST /signin: UserAuth binds the body and hands the user to SignIn,     *)
(* src/internal/models/models.go and src/internal/api/handlers/user.go     *)

\* the stored hash of a password
HashOf(password) == [k |-> "hash", of |-> password]

\* core.Hashing.Verify(password, storedHash): nil if storedHash is a hash of
\* password, else an error
HashingVerify(password, storedHash) ==
    IF storedHash = HashOf(password) THEN Ok(NilBytes) ELSE Err("CredentialMismatch")

\* the stored accounts
Accounts ==
    {[Id |-> 1, Username |-> "alice", Password |-> HashOf("pw-alice")],
     [Id |-> 2, Username |-> "bob", Password |-> HashOf("pw-bob")]}

\* bson.NewObjectID(): an id no stored account has
NewObjectID == 9

\* the body of a request: none, one that is no JSON, or an object with an
\* id (0: none given), a username, an email and a password ("": none given)
NilBody == [k |-> "nil", id |-> 0, username |-> "", email |-> "", password |-> ""]

NotJson == [NilBody EXCEPT !.k = "text"]

JsonBody(id, username, email, password) ==
    [k |-> "json", id |-> id, username |-> username, email |-> email, password |-> password]

\* UserAuth(next) applied to a request: the user starts with a new id and
\* c.Bind puts the fields of the body over it
UserAuth(tls, body) ==
    LET user == [Id |-> IF body.id # 0 THEN body.id ELSE NewObjectID,
                 Username |-> body.username, Email |-> body.email,
                 Password |-> body.password]
    IN  IF ~tls THEN [next |-> FALSE, status |-> 400, step |-> "tls", user |-> user]
        ELSE IF body.k = "nil" THEN [next |-> FALSE, status |-> 400, step |-> "body", user |-> user]
        ELSE IF body.k # "json" THEN [next |-> FALSE, status |-> 400, step |-> "bind", user |-> user]
        ELSE IF user.Username = "" \/ user.Password = "" \/ user.Email = ""
        THEN [next |-> FALSE, status |-> 400, step |-> "fields", user |-> user]
        ELSE [next |-> TRUE, status |-> 0, step |-> "next", user |-> user]

\* what a handler answers: an error without tokens, or the user as JSON
SignInError(code, step, loaded) ==
    [status |-> code, step |-> step, id |-> 0, access |-> EmptyString,
     refresh |-> EmptyString, loaded |-> loaded]

\* core.JWTFactory.NewToken(id, iss, isAccess): a signed access or refresh
\* token for id; fail makes the signing fail, the string returned is then ""
NewToken(id, iss, isAccess, t1, t2, fail) ==
    IF fail THEN [ok |-> FALSE, val |-> NotAToken]
    ELSE [ok |-> TRUE, val |-> IF isAccess THEN NewAccess(id, iss, t1, t2)
                               ELSE NewRefresh(id, iss, t1, t2)]

\* SignIn that does not compare the password with the stored hash
SignInSkipsVerify(user, exists, lookup, environ, file, rd, signFails) ==
    LET dbUser == lookup.rec
        rawAccessToken == NewToken(user.Id, SignInIssuer, TRUE, rd[1], rd[2],
                                   "access" \in signFails)
        rawRefreshToken == NewToken(user.Id, SignInIssuer, FALSE, rd[2], rd[3],
                                    "refresh" \in signFails)
        loaded == DotenvLoad(environ, file)
        encAccessKey == HexDecodeString(loaded.access)
        encRefreshKey == HexDecodeString(loaded.refresh)
        encAccessToken == EncrypterEncrypt(BytesOfString(rawAccessToken.val),
                                           encAccessKey.val, 1)
        encRefreshToken == EncrypterEncrypt(BytesOfString(rawRefreshToken.val),
                                            encRefreshKey.val, 2)
    IN  IF exists.err \/ ~exists.found THEN SignInError(404, "exists", FALSE)
        ELSE IF lookup.err THEN SignInError(404, "lookup", FALSE)
        ELSE IF ~rawRefreshToken.ok THEN SignInError(401, "sign", FALSE)
        ELSE IF ~encRefreshKey.ok THEN SignInError(401, "hex", TRUE)
        ELSE IF ~encRefreshToken.ok THEN SignInError(401, "encrypt", TRUE)
        ELSE [status |-> 200, step |-> "ok", id |-> user.Id,
              access |-> EncodeToString(encAccessToken.val),
              refresh |-> EncodeToString(encRefreshToken.val), loaded |-> TRUE]

\* SignIn(c) with user := c.Get("user"); exists and lookup are what
\* h.DB.Exists and h.DB.GetUserByName return, environ the environment and
\* file the .env file, rd the clock readings, signFails the NewToken calls
\* that fail.  After each pair of calls only the err of the second is
\* looked at.
SignIn(user, exists, lookup, environ, file, rd, signFails) ==
    LET dbUser == lookup.rec
        rawAccessToken == NewToken(user.Id, SignInIssuer, TRUE, rd[1], rd[2],
                                   "access" \in signFails)
        rawRefreshToken == NewToken(user.Id, SignInIssuer, FALSE, rd[2], rd[3],
                                    "refresh" \in signFails)
        loaded == DotenvLoad(environ, file)
        encAccessKey == HexDecodeString(loaded.access)
        encRefreshKey == HexDecodeString(loaded.refresh)
        encAccessToken == EncrypterEncrypt(BytesOfString(rawAccessToken.val),
                                           encAccessKey.val, 1)
        encRefreshToken == EncrypterEncrypt(BytesOfString(rawRefreshToken.val),
                                            encRefreshKey.val, 2)
    IN  IF exists.err \/ ~exists.found THEN SignInError(404, "exists", FALSE)
        ELSE IF lookup.err THEN SignInError(404, "lookup", FALSE)
        ELSE IF ~HashingVerify(user.Password, dbUser.Password).ok
        THEN SignInError(401, "password", FALSE)
        ELSE IF ~rawRefreshToken.ok THEN SignInError(401, "sign", FALSE)
        ELSE IF ~encRefreshKey.ok THEN SignInError(401, "hex", TRUE)
        ELSE IF ~encRefreshToken.ok THEN SignInError(401, "encrypt", TRUE)
        ELSE [status |-> 200, step |-> "ok", id |-> user.Id,
              access |-> EncodeToString(encAccessToken.val),
              refresh |-> EncodeToString(encRefreshToken.val), loaded |-> TRUE]

\* the bodies of the requests
Bodies ==
    {NilBody, NotJson}
    \cup {JsonBody(id, username, "user@filagram.pl", password) :
            id \in {0, 2}, username \in {"alice", "bob"},
            password \in {"pw-alice", "pw-bob"}}
    \cup {JsonBody(0, "alice", "", "pw-alice")}

\* what h.DB.Exists returns: (false, err), (false, nil), (true, nil)
ExistsResults ==
    {[err |-> TRUE, found |-> FALSE], [err |-> FALSE, found |-> FALSE],
     [err |-> FALSE, found |-> TRUE]}

\* what h.DB.GetUserByName(username) returns: an error, or the account of
\* that name
LookupResults(username) ==
    {[err |-> TRUE, rec |-> [Id |-> 0, Username |-> "", Password |-> HashOf("")]]}
    \cup {[err |-> FALSE, rec |-> a] : a \in {b \in Accounts : b.Username = username}}

SignInInit ==
    /\ EnvelopeInit
    /\ clock = StartClock
    /\ env \in EnvConfigs
    /\ held = NoHeld
    /\ last = NoLast
    /\ enc = NoEnc
    /\ rsp = NoRsp
    /\ ws = NoWs
    /\ srv = NoSrv
    /\ api = NoApi
    /\ proc \in {[Serving EXCEPT !.dotenv = file] : file \in DotenvFiles}

\* one POST /signin: UserAuth, then SignIn
PostSignIn ==
    /\ rsp.op = "none"
    /\ \E tls \in BOOLEAN, body \in Bodies, exists \in ExistsResults,
          rd \in Readings(clock), signFails \in SUBSET {"access", "refresh"} :
         \E lookup \in LookupResults(body.username) :
            LET auth == UserAuth(tls, body)
                in == [tls |-> tls, body |-> body, user |-> auth.user, exists |-> exists,
                       lookup |-> lookup, signFails |-> signFails, rd |-> rd]
                res == SignIn(auth.user, exists, lookup, env, proc.dotenv, rd, signFails)
            IN  IF ~auth.next
                THEN /\ rsp' = [NoRsp EXCEPT !.op = "UserAuth", !.status = auth.status,
                                             !.step = auth.step, !.in = in]
                     /\ UNCHANGED <<env, clock>>
                ELSE /\ rsp' = [op |-> "SignIn", status |-> res.status, step |-> res.step,
                                id |-> res.id, access |-> res.access,
                                refresh |-> res.refresh, in |-> in]
                     /\ env' = IF res.loaded THEN DotenvLoad(env, proc.dotenv) ELSE env
                     /\ clock' = IF res.step \in {"exists", "lookup", "password"}
                                 THEN clock ELSE rd[3]
    /\ UNCHANGED <<held, last, ws>>
    /\ UNCHANGED chatVars
    /\ UNCHANGED envelopeVars
    /\ UNCHANGED processVars

SignInNext == PostSignIn

SpecSignIn == SignInInit /\ [][SignInNext]_vars

-----------------------------------------------------------------------------
(* POST /refresh-token: JWTRefreshAuth hands the user of the refresh token *)
(* to RefreshToken, src/internal/api/handlers/user.go                      *)

\* RefreshToken that encrypts the new token under JWT_REFRESH_SECRET
RefreshTokenUnderRefreshSecret(userId, environ, t1, t2, signFails) ==
    LET rawAccessToken == NewToken(userId, RefreshIssuer, TRUE, t1, t2, signFails)
        encAccessKey == HexDecodeString(environ.refresh)
        encAccessToken == EncrypterEncrypt(BytesOfString(rawAccessToken.val),
                                           encAccessKey.val, 1)
    IN  IF ~rawAccessToken.ok THEN SignInError(401, "sign", FALSE)
        ELSE IF ~encAccessKey.ok THEN SignInError(401, "hex", FALSE)
        ELSE IF ~encAccessToken.ok THEN SignInError(401, "encrypt", FALSE)
        ELSE [status |-> 200, step |-> "ok", id |-> userId,
              access |-> EncodeToString(encAccessToken.val),
              refresh |-> EmptyString, loaded |-> FALSE]

\* RefreshToken(c) with user := c.Get("user"), the user JWTRefreshAuth has
\* set; t1, t2 are the clock readings of NewToken, signFails makes the
\* signing fail
RefreshToken(userId, environ, t1, t2, signFails) ==
    LET rawAccessToken == NewToken(userId, RefreshIssuer, TRUE, t1, t2, signFails)
        encAccessKey == HexDecodeString(environ.access)
        encAccessToken == EncrypterEncrypt(BytesOfString(rawAccessToken.val),
                                           encAccessKey.val, 1)
    IN  IF ~rawAccessToken.ok THEN SignInError(401, "sign", FALSE)
        ELSE IF ~encAccessKey.ok THEN SignInError(401, "hex", FALSE)
        ELSE IF ~encAccessToken.ok THEN SignInError(401, "encrypt", FALSE)
        ELSE [status |-> 200, step |-> "ok", id |-> userId,
              access |-> EncodeToString(encAccessToken.val),
              refresh |-> EmptyString, loaded |-> FALSE]

RefreshInit ==
    /\ EnvelopeInit
    /\ clock = StartClock
    /\ env \in EnvConfigs
    /\ held \in {Crafted(token, Secret(1)) : token \in AuthTokens}
    /\ last = NoLast
    /\ enc = NoEnc
    /\ rsp = NoRsp
    /\ ws = NoWs
    /\ srv = NoSrv
    /\ api = NoApi
    /\ proc = Serving

\* one POST /refresh-token: JWTRefreshAuth, then RefreshToken
PostRefreshToken ==
    /\ rsp.op = "none"
    /\ \E c \in Requests, rd \in Readings(clock), signFails \in BOOLEAN :
         LET auth == JWTRefreshAuth(c, env, rd[1])
             res == RefreshToken(auth.user, env, rd[2], rd[3], signFails)
             in == [c |-> c, now |-> rd[1], signFails |-> signFails]
         IN  IF ~auth.next
             THEN /\ rsp' = [NoRsp EXCEPT !.op = "JWTRefreshAuth", !.status = auth.status,
                                          !.step = auth.step, !.in = in]
                  /\ clock' = rd[1]
             ELSE /\ rsp' = [op |-> "RefreshToken", status |-> res.status,
                             step |-> res.step, id |-> res.id, access |-> res.access,
                             refresh |-> res.refresh, in |-> in]
                  /\ clock' = rd[3]
    /\ UNCHANGED <<env, held, last, ws>>
    /\ UNCHANGED chatVars
    /\ UNCHANGED envelopeVars
    /\ UNCHANGED processVars

\* the refresh token that was answered with a new access token is presented
\* to the route again, now or later
PresentAgain ==
    /\ rsp.op = "RefreshToken"
    /\ rsp.status = 200
    /\ last.op = "none"
    /\ \E now \in clock .. clock + MaxSkew + 1 :
         LET res == JWTRefreshAuth(rsp.in.c, env, now)
         IN  /\ last' = [NoLast EXCEPT !.op = "JWTRefreshAuth", !.req = rsp.in.c,
                                       !.t1 = now, !.status = res.status,
                                       !.step = res.step, !.next = res.next,
                                       !.user = res.user]
             /\ clock' = now
    /\ UNCHANGED <<env, held, rsp, ws>>
    /\ UNCHANGED chatVars
    /\ UNCHANGED envelopeVars
    /\ UNCHANGED processVars

RefreshNext ==
    \/ PostRefreshToken
    \/ PresentAgain

SpecRefresh == RefreshInit /\ [][RefreshNext]_vars

-----------------------------------------------------------------------------
(* The MQTT connect hook, src/internal/api/hooks/mqtt_authentication.go    *)

\* return false / return true
HookResult(ok, step) == [ok |-> ok, step |-> step]

\* OnConnectAuthenticate that does not verify the claims
OnConnectAuthenticateSkipsClaims(password, environ, now) ==
    LET decodedToken == DecodeString(password)
        key == HexDecodeString(environ.access)
        decryptedToken == EncrypterDecrypt(decodedToken.val, key.val)
        claims == ParseToken(StringOfBytes(decryptedToken.val), TRUE)
    IN  IF password = EmptyString THEN HookResult(FALSE, "password")
        ELSE IF ~decodedToken.ok THEN HookResult(FALSE, "base64")
        ELSE IF ~key.ok THEN HookResult(FALSE, "hex")
        ELSE IF ~decryptedToken.ok THEN HookResult(FALSE, "decrypt")
        ELSE IF ~claims.ok THEN HookResult(FALSE, "parse")
        ELSE HookResult(TRUE, "ok")

\* OnConnectAuthenticate(client, pk) with token := string(pk.Connect.Password);
\* environ is the environment after godotenv.Load(), now the time
\* VerifyClaims reads
OnConnectAuthenticate(password, environ, now) ==
    LET decodedToken == DecodeString(password)
        key == HexDecodeString(environ.access)
        decryptedToken == EncrypterDecrypt(decodedToken.val, key.val)
        claims == ParseToken(StringOfBytes(decryptedToken.val), TRUE)
        verified == VerifyClaims(claims.claims, TRUE, now)
    IN  IF password = EmptyString THEN HookResult(FALSE, "password")
        ELSE IF ~decodedToken.ok THEN HookResult(FALSE, "base64")
        ELSE IF ~key.ok THEN HookResult(FALSE, "hex")
        ELSE IF ~decryptedToken.ok THEN HookResult(FALSE, "decrypt")
        ELSE IF ~claims.ok THEN HookResult(FALSE, "parse")
        ELSE IF ~verified.ok THEN HookResult(FALSE, "claims")
        ELSE HookResult(TRUE, "ok")

\* the passwords of a CONNECT packet that carries the token at hand
Passwords == {h.rest : h \in Headers}

MqttInit ==
    /\ EnvelopeInit
    /\ clock = StartClock
    /\ env \in EnvConfigs
    /\ held \in {Crafted(token, Secret(i)) : token \in AuthTokens, i \in {1, 2}}
    /\ last = NoLast
    /\ enc = NoEnc
    /\ rsp = NoRsp
    /\ ws = NoWs
    /\ srv = NoSrv
    /\ api = NoApi
    /\ proc \in {[Serving EXCEPT !.dotenv = file] :
                    file \in {f \in DotenvFiles : f.refresh # NotHex}}

\* a client connects to the MQTT server with a password
Connect ==
    /\ rsp.op = "none"
    /\ env' = DotenvLoad(env, proc.dotenv)
    /\ \E password \in Passwords, now \in clock .. clock + MaxSkew :
         LET res == OnConnectAuthenticate(password, env', now)
         IN  /\ rsp' = [NoRsp EXCEPT !.op = "OnConnectAuthenticate",
                                     !.status = IF res.ok THEN 1 ELSE 0,
                                     !.step = res.step,
                                     !.in = [password |-> password, now |-> now]]
             /\ clock' = now
    /\ UNCHANGED <<held, last, ws>>
    /\ UNCHANGED chatVars
    /\ UNCHANGED envelopeVars
    /\ UNCHANGED processVars

MqttNext == Connect

SpecMqtt == MqttInit /\ [][MqttNext]_vars

-----------------------------------------------------------------------------
(* GET /ws: wsHandler, main.go 57-80, over one connection.  The handler    *)
(* blocks in conn.ReadMessage and in conn.WriteMessage; ws.pc is the call  *)
(* it is in.  ws.sent is what the client has sent on the connection so far,*)
(* ws.read the messages ReadMessage returned, ws.written the messages      *)
(* WriteMessage sent back to the client.                                   *)

\* the data message types of gorilla/websocket
TextMessage == 1
BinaryMessage == 2

\* the client sends at most MaxMessages messages on the connection
MaxMessages == 2

\* payloads: none, the JSON text "hi" and a byte that is not UTF-8
Payloads == {<<>>, <<34, 104, 105, 34>>, <<255>>}

WsMessage(messageType, message) == [messageType |-> messageType, message |-> message]

WsMessages == {WsMessage(t, p) : t \in {TextMessage, BinaryMessage}, p \in Payloads}

WsInit ==
    /\ EnvelopeInit
    /\ clock = StartClock
    /\ env = [access |-> HexOf(Secret(1)), refresh |-> HexOf(Secret(2))]
    /\ held = NoHeld
    /\ last = NoLast
    /\ enc = NoEnc
    /\ rsp = NoRsp
    /\ ws = NoWs
    /\ srv = NoSrv
    /\ api = NoApi
    /\ proc = Serving

\* conn, err := upgrader.Upgrade(w, r, nil): the handler returns on an error
WsUpgrade ==
    /\ ws.pc = "none"
    /\ \E ok \in BOOLEAN :
         ws' = IF ok THEN [ws EXCEPT !.pc = "ReadMessage"]
               ELSE [ws EXCEPT !.pc = "returned", !.err = "upgrade"]
    /\ UNCHANGED <<rsp, clock, env, held, last, enc>>
    /\ UNCHANGED chatVars
    /\ UNCHANGED envelopeVars
    /\ UNCHANGED processVars

\* the client writes a message to the connection; it may do so whatever the
\* handler is doing, until it learns that the connection is closed
WsClientWrite ==
    /\ ws.pc \in {"ReadMessage", "WriteMessage", "returned"}
    /\ ws.err # "upgrade"
    /\ Len(ws.sent) < MaxMessages
    /\ \E m \in WsMessages : ws' = [ws EXCEPT !.sent = Append(@, m)]
    /\ UNCHANGED <<rsp, clock, env, held, last, enc>>
    /\ UNCHANGED chatVars
    /\ UNCHANGED envelopeVars
    /\ UNCHANGED processVars

\* messageType, message, err := conn.ReadMessage(): the next message the
\* client sent, in the order sent, or an error (the connection was closed or
\* broke), on which the loop ends and the deferred conn.Close() runs
WsReadMessage ==
    /\ ws.pc = "ReadMessage"
    /\ \E ok \in BOOLEAN :
         IF ok
         THEN /\ Len(ws.read) < Len(ws.sent)
              /\ ws' = [ws EXCEPT !.read = Append(@, ws.sent[Len(ws.read) + 1]),
                                  !.pc = "WriteMessage"]
         ELSE ws' = [ws EXCEPT !.pc = "returned", !.err = "read"]
    /\ UNCHANGED <<rsp, clock, env, held, last, enc>>
    /\ UNCHANGED chatVars
    /\ UNCHANGED envelopeVars
    /\ UNCHANGED processVars

\* a handler that answers every message as a text message
WsWriteMessageAsText ==
    /\ ws.pc = "WriteMessage"
    /\ \E ok \in BOOLEAN :
         LET received == ws.read[Len(ws.read)]
         IN  IF ok
             THEN ws' = [ws EXCEPT !.written = Append(@, WsMessage(TextMessage, received.message)),
                                   !.pc = "ReadMessage"]
             ELSE ws' = [ws EXCEPT !.pc = "returned", !.err = "write"]
    /\ UNCHANGED <<rsp, clock, env, held, last, enc>>
    /\ UNCHANGED chatVars
    /\ UNCHANGED envelopeVars
    /\ UNCHANGED processVars

\* conn.WriteMessage(messageType, message) with what ReadMessage returned, or
\* an error, on which the loop ends and the deferred conn.Close() runs
WsWriteMessage ==
    /\ ws.pc = "WriteMessage"
    /\ \E ok \in BOOLEAN :
         LET received == ws.read[Len(ws.read)]
         IN  IF ok
             THEN ws' = [ws EXCEPT !.written = Append(@, WsMessage(received.messageType, received.message)),
                                   !.pc = "ReadMessage"]
             ELSE ws' = [ws EXCEPT !.pc = "returned", !.err = "write"]
    /\ UNCHANGED <<rsp, clock, env, held, last, enc>>
    /\ UNCHANGED chatVars
    /\ UNCHANGED envelopeVars
    /\ UNCHANGED processVars

WsNext ==
    \/ WsUpgrade
    \/ WsClientWrite
    \/ WsReadMessage
    \/ WsWriteMessage

SpecWs == WsInit /\ [][WsNext]_vars

\* the handler's goroutine runs: a call it is in returns, with a message or
\* with an error
SpecWsLive == SpecWs /\ WF_vars(WsReadMessage) /\ WF_vars(WsWriteMessage)

-----------------------------------------------------------------------------
(* The chat server of another_handler.go: four MQTT callbacks put payloads *)
(* on four buffered channels, four goroutines take them off and record     *)
(* presence, a fifth goroutine removes inactive users.  Time is counted in *)
(* minutes.  srv.wire holds what the server published and the broker has   *)
(* still to hand to the server's own subscriptions.                        *)

\* the users that publish
ChatUsers == {"alice", "bob"}

\* cap of messageChan, statusChan, typingChan and onlineChan (1000 in
\* NewServer), scaled down
QueueCap == 2

\* 5*time.Minute, in minutes
InactiveAfter == 5

\* the model follows the chat server for MaxMinutes minutes after a user
\* has been quiet for InactiveAfter minutes
MaxMinutes == 1

\* the clients publish at most MaxPublished payloads
MaxPublished == 2

\* the minute the clock of the model stops at
LastMinute == InactiveAfter + MaxMinutes

\* the first minute at which a user last seen at minute 0 is inactive
StaleAt == InactiveAfter + 1

Chans == {"message", "typing", "status", "online"}

\* a payload: the JSON object it holds (json = FALSE: bytes that do not
\* parse), the topic kind it is published on and who published it
NoPayload ==
    [topic |-> "", json |-> TRUE, id |-> "", sender |-> "", receiver |-> "",
     status |-> "", userId |-> "", isOnline |-> FALSE, at |-> 0, by |-> ""]

\* json.Marshal(Message{ID, Sender, Receiver, ...}), published by its sender
MessagePayload(id, sender, receiver) ==
    [NoPayload EXCEPT !.topic = "message", !.id = id, !.sender = sender,
                      !.receiver = receiver, !.by = sender]

\* json.Marshal(TypingIndicator{Sender, Receiver, ...})
TypingPayload(sender, receiver) ==
    [NoPayload EXCEPT !.topic = "typing", !.sender = sender, !.receiver = receiver,
                      !.by = sender]

\* json.Marshal(MessageStatus{MessageID, Sender, Receiver, Status, Timestamp})
StatusPayload(id, sender, receiver, status, at, by) ==
    [NoPayload EXCEPT !.topic = "status", !.id = id, !.sender = sender,
                      !.receiver = receiver, !.status = status, !.at = at, !.by = by]

\* json.Marshal(OnlineStatus{UserID, IsOnline, LastSeen, Timestamp})
OnlinePayload(userId, isOnline, at, by) ==
    [NoPayload EXCEPT !.topic = "online", !.userId = userId, !.isOnline = isOnline,
                      !.at = at, !.by = by]

\* bytes that are not JSON, published on a topic of kind topic
BadPayload(topic, by) == [NoPayload EXCEPT !.topic = topic, !.json = FALSE, !.by = by]

\* what the clients publish
ClientPayloads ==
    {MessagePayload("m1", "alice", "bob"), MessagePayload("m2", "bob", "alice"),
     BadPayload("message", "alice"),
     TypingPayload("alice", "bob"),
     OnlinePayload("bob", TRUE, 0, "bob")}

\* one payload for every queue
OnePerQueue ==
    {MessagePayload("m1", "alice", "bob"), TypingPayload("alice", "bob"),
     StatusPayload("m2", "alice", "bob", "read", 0, "alice"),
     OnlinePayload("bob", TRUE, 0, "bob")}

NoEvent == [kind |-> "none", user |-> "", by |-> "", seen |-> 0, on |-> FALSE, at |-> 0]

\* the server after NewServer and Start, InactiveAfter minutes after alice
\* was recorded online: connected and subscribed, the five goroutines in
\* their select, empty queues, doneChan open; the clients will publish
\* budget payloads out of inputs and the clock stops at until.  With history the record keeps what was
\* queued, taken and published, the last callback, the last SetUserOnline
\* and the last removal of the cleanup.
NewServer(budget, inputs, history, until) ==
    [pc |-> [main |-> "started", messages |-> "select", typing |-> "select",
             status |-> "select", online |-> "select", cleanup |-> "select"],
     now |-> InactiveAfter, tick |-> FALSE, connected |-> TRUE, done |-> FALSE,
     onlineUsers |-> [u \in ChatUsers |-> [on |-> u = "alice", at |-> 0]],
     q |-> [c \in Chans |-> <<>>],
     wire |-> <<>>,
     cur |-> NoPayload, activeUsers |-> {}, cnow |-> 0,
     budget |-> budget, inputs |-> inputs, history |-> history, until |-> until,
     queued |-> <<>>, taken |-> <<>>, published |-> <<>>,
     cb |-> [chan |-> "", payload |-> NoPayload],
     setOnline |-> NoEvent, removed |-> NoEvent]

\* up.onlineUsers[userID] = time.Now()
SetUserOnline(s, userID, by) ==
    [s EXCEPT !.onlineUsers = IF userID \in ChatUsers
                              THEN [@ EXCEPT ![userID] = [on |-> TRUE, at |-> s.now]]
                              ELSE @,
              !.setOnline = IF s.history
                            THEN [NoEvent EXCEPT !.kind = "SetUserOnline", !.user = userID,
                                                 !.by = by, !.at = s.now]
                            ELSE @]

\* delete(up.onlineUsers, userID)
SetUserOffline(s, userID) ==
    [s EXCEPT !.onlineUsers = IF userID \in ChatUsers
                              THEN [@ EXCEPT ![userID] = [on |-> FALSE, at |-> 0]]
                              ELSE @]

\* ActiveUsers(): a copy of the map
ActiveUsers(s) ==
    {[user |-> u, lastSeen |-> s.onlineUsers[u].at] : u \in {v \in ChatUsers : s.onlineUsers[v].on}}

\* the subscription of Start that a topic matches: chat/+/+/message,
\* chat/+/+/typing, chat/+/+/status, chat/+/online
Subscription(topic) ==
    IF Len(topic) = 4 /\ topic[1] = "chat" /\ topic[4] \in {"message", "typing", "status"}
    THEN topic[4]
    ELSE IF Len(topic) = 3 /\ topic[1] = "chat" /\ topic[3] = "online"
    THEN "online"
    ELSE ""

\* s.client.Publish(topic, QosLevel, retained, payload); token.Wait(): with
\* ok the broker has the payload and hands it to every subscription it
\* matches, those of this server included
Publish(s, topic, payload, ok) ==
    [s EXCEPT !.published = IF s.history
                            THEN Append(@, [topic |-> topic, payload |-> payload]) ELSE @,
              !.wire = IF ok /\ s.connected /\ Subscription(topic) # ""
                       THEN Append(@, [topic |-> topic, payload |-> payload]) ELSE @]

\* a callback that queues whatever the queue holds
HandleAlwaysQueues(s, chan, payload) ==
    [s EXCEPT !.q[chan] = Append(@, payload),
              !.cb = IF s.history THEN [chan |-> chan, payload |-> payload] ELSE @]

\* handleMessage, handleTyping, handleStatus, handleOnline: select with a
\* send on the channel of the topic and a default
Handle(s, chan, payload) ==
    [s EXCEPT !.q[chan] = IF Len(@) < QueueCap THEN Append(@, payload) ELSE @,
              !.queued = IF s.history /\ chan = "message" /\ Len(s.q[chan]) < QueueCap
                         THEN Append(@, payload) ELSE @,
              !.cb = IF s.history THEN [chan |-> chan, payload |-> payload] ELSE @]

\* the variables the chat server leaves alone
ChatUnchanged ==
    /\ UNCHANGED envelopeVars
    /\ UNCHANGED tokenVars
    /\ UNCHANGED processVars
    /\ UNCHANGED handlerVars
    /\ UNCHANGED api

\* a client publishes on a topic the server subscribed to: the callback of
\* the subscription runs
ClientPublish ==
    /\ srv.pc.main \in {"started", "closing"}
    /\ srv.connected
    /\ srv.budget > 0
    /\ \E payload \in srv.inputs :
         srv' = [Handle(srv, payload.topic, payload) EXCEPT !.budget = @ - 1]
    /\ ChatUnchanged

\* the broker hands the server one of the server's own publications: the
\* receipt matches chat/+/+/status, the offline status chat/+/online
BrokerDeliver ==
    /\ srv.pc.main \in {"started", "closing"}
    /\ srv.connected
    /\ srv.wire # <<>>
    /\ srv' = [Handle(srv, Subscription(Head(srv.wire).topic), Head(srv.wire).payload)
                 EXCEPT !.wire = Tail(@)]
    /\ ChatUnchanged

\* time passes; the ticker of cleanupInactiveUsers has a tick every minute
AdvanceTime ==
    /\ srv.pc.main \in {"started", "closing", "stopped"}
    /\ srv.now < srv.until
    /\ srv' = [srv EXCEPT !.now = @ + 1, !.tick = TRUE]
    /\ ChatUnchanged

\* processMessages with a receipt that keeps Sender and Receiver
ProcessMessagesPublishNotReversed ==
    /\ srv.pc.messages = "select"
    /\ srv.q["message"] # <<>>
    /\ LET payload == Head(srv.q["message"])
           s1 == [srv EXCEPT !.q["message"] = Tail(@),
                             !.taken = IF srv.history THEN Append(@, payload) ELSE @]
           status == StatusPayload(payload.id, payload.sender, payload.receiver,
                                   "delivered", srv.now, "server")
           topic == <<"chat", payload.receiver, payload.sender, "status">>
       IN  IF ~payload.json
           THEN srv' = s1
           ELSE \E ok \in BOOLEAN :
                  srv' = [Publish(s1, topic, status, ok) EXCEPT !.pc.messages = "presence",
                                                                !.cur = payload]
    /\ ChatUnchanged

\* processMessages, case payload := <-s.messageChan, up to token.Wait()
ProcessMessagesPublish ==
    /\ srv.pc.messages = "select"
    /\ srv.q["message"] # <<>>
    /\ LET payload == Head(srv.q["message"])
           s1 == [srv EXCEPT !.q["message"] = Tail(@),
                             !.taken = IF srv.history THEN Append(@, payload) ELSE @]
           status == StatusPayload(payload.id, payload.receiver, payload.sender,
                                   "delivered", srv.now, "server")
           topic == <<"chat", payload.receiver, payload.sender, "status">>
       IN  IF ~payload.json
           THEN srv' = s1
           ELSE \E ok \in BOOLEAN :
                  srv' = [Publish(s1, topic, status, ok) EXCEPT !.pc.messages = "presence",
                                                                !.cur = payload]
    /\ ChatUnchanged

\* processMessages: s.presence.SetUserOnline(message.Sender)
ProcessMessagesPresence ==
    /\ srv.pc.messages = "presence"
    /\ srv' = [SetUserOnline(srv, srv.cur.sender, srv.cur.by)
                 EXCEPT !.pc.messages = "select", !.cur = NoPayload]
    /\ ChatUnchanged

\* processTyping, case payload := <-s.typingChan
ProcessTyping ==
    /\ srv.pc.typing = "select"
    /\ srv.q["typing"] # <<>>
    /\ LET payload == Head(srv.q["typing"])
           s1 == [srv EXCEPT !.q["typing"] = Tail(@)]
       IN  srv' = IF payload.json THEN SetUserOnline(s1, payload.sender, payload.by) ELSE s1
    /\ ChatUnchanged

\* processStatus, case payload := <-s.statusChan
ProcessStatus ==
    /\ srv.pc.status = "select"
    /\ srv.q["status"] # <<>>
    /\ LET payload == Head(srv.q["status"])
           s1 == [srv EXCEPT !.q["status"] = Tail(@)]
       IN  srv' = IF payload.json THEN SetUserOnline(s1, payload.sender, payload.by) ELSE s1
    /\ ChatUnchanged

\* processOnline, case payload := <-s.onlineChan
ProcessOnline ==
    /\ srv.pc.online = "select"
    /\ srv.q["online"] # <<>>
    /\ LET payload == Head(srv.q["online"])
           s1 == [srv EXCEPT !.q["online"] = Tail(@)]
       IN  srv' = IF ~payload.json THEN s1
                  ELSE IF payload.isOnline THEN SetUserOnline(s1, payload.userId, payload.by)
                  ELSE SetUserOffline(s1, payload.userId)
    /\ ChatUnchanged

\* cleanupInactiveUsers, case <-ticker.C: now and the copy of the map
CleanupTick ==
    /\ srv.pc.cleanup = "select"
    /\ srv.tick
    /\ srv' = [srv EXCEPT !.tick = FALSE, !.cnow = srv.now,
                          !.activeUsers = ActiveUsers(srv),
                          !.pc.cleanup = IF ActiveUsers(srv) = {} THEN "select" ELSE "range"]
    /\ ChatUnchanged

\* cleanupInactiveUsers: one round of the range over the copy
CleanupRange ==
    /\ srv.pc.cleanup = "range"
    /\ \E e \in srv.activeUsers, ok \in BOOLEAN :
         LET rest == srv.activeUsers \ {e}
             s1 == [srv EXCEPT !.activeUsers = rest,
                               !.pc.cleanup = IF rest = {} THEN "select" ELSE "range"]
             entry == srv.onlineUsers[e.user]
             s2 == [SetUserOffline(s1, e.user)
                      EXCEPT !.removed = IF srv.history
                                         THEN [NoEvent EXCEPT !.kind = "SetUserOffline",
                                                              !.user = e.user, !.on = entry.on,
                                                              !.seen = entry.at, !.at = srv.now]
                                         ELSE @]
         IN  srv' = IF srv.cnow - e.lastSeen > InactiveAfter
                    THEN Publish(s2, <<"chat", e.user, "online">>,
                                 OnlinePayload(e.user, FALSE, srv.cnow, "server"), ok)
                    ELSE s1
    /\ ChatUnchanged

\* Shutdown: close(s.doneChan)
Shutdown ==
    /\ srv.pc.main = "started"
    /\ srv' = [srv EXCEPT !.done = TRUE, !.pc.main = "closing"]
    /\ ChatUnchanged

\* Shutdown: s.client.Disconnect(250), after which no callback runs
Disconnect ==
    /\ srv.pc.main = "closing"
    /\ srv' = [srv EXCEPT !.connected = FALSE, !.pc.main = "stopped"]
    /\ ChatUnchanged

\* loops that return on doneChan, but for the cleanup
ReturnButCleanup(w) ==
    /\ w # "cleanup"
    /\ srv.pc[w] = "select"
    /\ srv.done
    /\ srv' = [srv EXCEPT !.pc[w] = "returned"]
    /\ ChatUnchanged

\* case <-s.doneChan: return, in the loop w
Return(w) ==
    /\ srv.pc[w] = "select"
    /\ srv.done
    /\ srv' = [srv EXCEPT !.pc[w] = "returned"]
    /\ ChatUnchanged

Loops == {"messages", "typing", "status", "online", "cleanup"}

LoopReturns == \E w \in Loops : Return(w)

\* the variables of the other machines
ChatRest ==
    /\ EnvelopeInit
    /\ clock = StartClock
    /\ env = [access |-> HexOf(Secret(1)), refresh |-> HexOf(Secret(2))]
    /\ held = NoHeld
    /\ last = NoLast
    /\ enc = NoEnc
    /\ rsp = NoRsp
    /\ ws = NoWs
    /\ api = NoApi
    /\ proc = Serving

ChatInit ==
    /\ ChatRest
    /\ srv = NewServer(MaxPublished, ClientPayloads, TRUE, LastMinute)

\* the callbacks and the four workers
QueueNext ==
    \/ ClientPublish
    \/ BrokerDeliver
    \/ ProcessMessagesPublish
    \/ ProcessMessagesPresence
    \/ ProcessTyping
    \/ ProcessStatus
    \/ ProcessOnline

\* callbacks, workers and the cleanup of a server that is not shut down
ChatNext ==
    \/ QueueNext
    \/ AdvanceTime
    \/ CleanupTick
    \/ CleanupRange

SpecChat == ChatInit /\ [][ChatNext]_vars

\* the queues: more payloads than a queue holds, one kind for each queue
QueueInit ==
    /\ ChatRest
    /\ srv = NewServer(QueueCap + 1, OnePerQueue, TRUE, LastMinute)

SpecQueues == QueueInit /\ [][QueueNext]_vars

\* every worker goroutine runs
WorkerFairness ==
    /\ WF_vars(ProcessMessagesPublish)
    /\ WF_vars(ProcessMessagesPresence)
    /\ WF_vars(ProcessTyping)
    /\ WF_vars(ProcessStatus)
    /\ WF_vars(ProcessOnline)

\* the workers, with messages that parse and that do not
WorkerPayloads ==
    {MessagePayload("m1", "alice", "bob"), MessagePayload("m2", "bob", "alice"),
     BadPayload("message", "alice"), TypingPayload("alice", "bob"),
     OnlinePayload("bob", TRUE, 0, "bob")}

WorkerInit ==
    /\ ChatRest
    /\ srv = NewServer(MaxPublished, WorkerPayloads, TRUE, LastMinute)

SpecWorkers == WorkerInit /\ [][QueueNext]_vars /\ WorkerFairness

\* a server about to be shut down: a message and a typing indicator wait
\* in their queues
ShutdownInit ==
    /\ ChatRest
    /\ srv = [NewServer(0, {}, FALSE, StaleAt)
               EXCEPT !.q["message"] = <<MessagePayload("m1", "alice", "bob")>>,
                      !.q["typing"] = <<TypingPayload("bob", "alice")>>]

\* the server that is shut down: the callbacks that still run are those for
\* what the server itself has published
ShutdownNext ==
    \/ BrokerDeliver
    \/ AdvanceTime
    \/ ProcessMessagesPublish
    \/ ProcessMessagesPresence
    \/ ProcessTyping
    \/ ProcessStatus
    \/ ProcessOnline
    \/ CleanupTick
    \/ CleanupRange
    \/ Shutdown
    \/ Disconnect
    \/ LoopReturns

\* every goroutine runs; a select with several ready cases takes one of them
\* at random, so a case that is ready again and again is taken; Disconnect
\* returns
ShutdownFairness ==
    /\ WorkerFairness
    /\ WF_vars(CleanupTick)
    /\ WF_vars(CleanupRange)
    /\ WF_vars(Disconnect)
    /\ \A w \in Loops : SF_vars(Return(w))

SpecShutdown == ShutdownInit /\ [][ShutdownNext]_vars /\ ShutdownFairness

-----------------------------------------------------------------------------
(* The API server of message_websocket.go: echo runs every request in a    *)
(* goroutine of its own and the MQTT client runs handleMQTTOnline in       *)
(* another; all of them use the two maps of the one UserService, which has *)
(* no lock.  api.g[i] is what goroutine i is running and where it is: the  *)
(* map access it is about to make (step) and whether it is in it (in).     *)

\* goroutines that run handlers at the same time
MaxGoroutines == 2

\* requests and MQTT messages the model follows
MaxRequests == 3

Goroutines == 1 .. MaxGoroutines

\* the IDs AddUser hands out (uuid.New().String()), in this order
ApiUserIDs == <<"id-1", "id-2">>

\* a read or a write of a map of UserService
MapAccess(map, mode) == [map |-> map, mode |-> mode]

\* the map accesses of a handler, in the order it makes them:
\* registerUser: AddUser writes users (67);
\* listUsers: the range over users (241);
\* getUser: GetUser reads users (73);
\* getUserStatus: GetUser (73), then GetUserStatus reads userStatus (84);
\* sendMessage: GetUser of the sender and of the receiver (288, 289), then
\*   SetUserStatus writes userStatus (79);
\* handleMQTTOnline: SetUserStatus writes userStatus (79)
Accesses(op) ==
    CASE op = "registerUser" -> <<MapAccess("users", "write")>>
      [] op = "listUsers" -> <<MapAccess("users", "read")>>
      [] op = "getUser" -> <<MapAccess("users", "read")>>
      [] op = "getUserStatus" -> <<MapAccess("users", "read"), MapAccess("userStatus", "read")>>
      [] op = "sendMessage" -> <<MapAccess("users", "read"), MapAccess("users", "read"),
                                 MapAccess("userStatus", "write")>>
      [] op = "handleMQTTOnline" -> <<MapAccess("userStatus", "write")>>
      [] OTHER -> <<>>

\* a goroutine that runs no handler
Idle == [op |-> "", id |-> "", other |-> "", flag |-> FALSE, step |-> 0, in |-> FALSE,
         found |-> TRUE]

\* a handler at its first map access: id is the user of the request
\* (c.Param("id"), req.Sender, status.UserID), other the receiver, flag
\* status.IsOnline
Running(op, id, other, flag) ==
    [Idle EXCEPT !.op = op, !.id = id, !.other = other, !.flag = flag, !.step = 1]

\* NewAPIServer: empty maps
NewAPIServer ==
    [pc |-> "serving", users |-> {}, userStatus |-> [u \in {} |-> TRUE],
     g |-> [i \in Goroutines |-> Idle], requests |-> 0]

\* what goroutine i is about to do or is doing to a map
AccessOf(a, i) == Accesses(a.g[i].op)[a.g[i].step]

\* two accesses the Go memory model does not allow at the same time
Conflict(x, y) == x.map = y.map /\ "write" \in {x.mode, y.mode}

\* goroutine i is in a map access that conflicts with one another goroutine
\* is in
Racing(a, i) ==
    /\ a.g[i].in
    /\ \E j \in Goroutines \ {i} : a.g[j].in /\ Conflict(AccessOf(a, i), AccessOf(a, j))

ApiUnchanged ==
    /\ UNCHANGED envelopeVars
    /\ UNCHANGED tokenVars
    /\ UNCHANGED processVars
    /\ UNCHANGED handlerVars
    /\ UNCHANGED srv

\* a request or an MQTT message arrives: a goroutine starts its handler
Serve(op, id, other, flag) ==
    /\ api.pc = "serving"
    /\ api.requests < MaxRequests
    /\ \E i \in Goroutines :
         /\ api.g[i] = Idle
         /\ api' = [api EXCEPT !.g[i] = Running(op, id, other, flag), !.requests = @ + 1]
    /\ ApiUnchanged

IDs == {ApiUserIDs[n] : n \in 1 .. Len(ApiUserIDs)}

\* POST /api/v1/users
registerUser == Serve("registerUser", "", "", FALSE)

\* GET /api/v1/users
listUsers == Serve("listUsers", "", "", FALSE)

\* GET /api/v1/users/:id
getUser == \E id \in IDs : Serve("getUser", id, "", FALSE)

\* GET /api/v1/users/:id/status
getUserStatus == \E id \in IDs : Serve("getUserStatus", id, "", FALSE)

\* POST /api/v1/messages; flag: the Publish succeeds
sendMessage == \E id \in IDs, ok \in BOOLEAN : Serve("sendMessage", id, ApiUserIDs[1], ok)

\* a message on chat/+/online that parses
handleMQTTOnline == \E id \in IDs, isOnline \in BOOLEAN : Serve("handleMQTTOnline", id, "", isOnline)

\* a goroutine enters its next map access; nothing keeps it out while
\* another goroutine is in the map.  When the two accesses conflict the
\* behaviour is undefined: the runtime may stop the process (fatal error:
\* concurrent map writes / concurrent map read and map write) or not notice
EnterMap ==
    /\ api.pc = "serving"
    /\ \E i \in Goroutines, noticed \in BOOLEAN :
         /\ api.g[i].step > 0
         /\ ~api.g[i].in
         /\ LET a1 == [api EXCEPT !.g[i].in = TRUE]
            IN  api' = IF noticed /\ Racing(a1, i) THEN [a1 EXCEPT !.pc = "fatal"] ELSE a1
    /\ ApiUnchanged

\* the handler of goroutine i after its map access number step, which found
\* its key or not: it makes its next access or returns
AfterAccess(g, found) ==
    LET all == g.found /\ found
        done == g.step = Len(Accesses(g.op))
        stop == \/ done
                \/ g.op = "getUserStatus" /\ ~found
                \/ g.op = "sendMessage" /\ g.step = 2 /\ (~all \/ ~g.flag)
    IN  IF stop THEN Idle ELSE [g EXCEPT !.step = @ + 1, !.in = FALSE, !.found = all]

\* a goroutine leaves the map access it is in: the access has its effect
LeaveMap ==
    /\ api.pc = "serving"
    /\ \E i \in Goroutines :
         /\ api.g[i].in
         /\ LET g == api.g[i]
                access == AccessOf(api, i)
                key == IF g.op = "sendMessage" /\ g.step = 2 THEN g.other ELSE g.id
                found == IF access.map = "users" THEN key \in api.users
                         ELSE key \in DOMAIN api.userStatus
                fresh == ApiUserIDs[Cardinality(api.users) + 1]
            IN  api' = [api EXCEPT
                     !.users = IF access = MapAccess("users", "write")
                                  /\ Cardinality(api.users) < Len(ApiUserIDs)
                               THEN @ \cup {fresh} ELSE @,
                     !.userStatus = IF access = MapAccess("userStatus", "write")
                                    THEN [u \in DOMAIN @ \cup {g.id} |->
                                            IF u = g.id
                                            THEN (IF g.op = "sendMessage" THEN TRUE ELSE g.flag)
                                            ELSE @[u]]
                                    ELSE @,
                     !.g[i] = AfterAccess(g, found)]
    /\ ApiUnchanged

ApiInit ==
    /\ EnvelopeInit
    /\ clock = StartClock
    /\ env = [access |-> HexOf(Secret(1)), refresh |-> HexOf(Secret(2))]
    /\ held = NoHeld
    /\ last = NoLast
    /\ enc = NoEnc
    /\ rsp = NoRsp
    /\ ws = NoWs
    /\ srv = NoSrv
    /\ api = NewAPIServer
    /\ proc = Serving

ApiNext ==
    \/ registerUser
    \/ listUsers
    \/ getUser
    \/ getUserStatus
    \/ sendMessage
    \/ handleMQTTOnline
    \/ EnterMap
    \/ LeaveMap

SpecApi == ApiInit /\ [][ApiNext]_vars

-----------------------------------------------------------------------------
(* The process: main loads the keys and starts the listeners, which then   *)
(* serve requests.  rev 1 is the HTTP server alone, rev 2 starts the MQTT  *)
(* server first.                                                           *)

\* what core.LoadKeys finds at the sources of the keys
KeySources == {"ok", "absent", "malformed", "wrong length"}

\* core.LoadKeys(): the signing key pairs and the transport secrets are read
\* from their sources; it fails if a key is absent, malformed or of the
\* wrong length
LoadKeys(sources, environ) ==
    IF sources # "ok" THEN Err(sources)
    ELSE IF ~SecretUsable(environ.access) \/ ~SecretUsable(environ.refresh)
    THEN Err("transport secret")
    ELSE Ok(NilBytes)

\* the process ends: its listeners end with it
Ended(p, how) == [p EXCEPT !.pc = how, !.mqtt = FALSE, !.http = FALSE]

MainInit ==
    /\ EnvelopeInit
    /\ clock = StartClock
    /\ env \in EnvConfigs
    /\ held \in {Crafted(NewRefresh(1, SignInIssuer, StartClock - 1, StartClock - 1), Secret(i)) :
                    i \in {1, 2}}
    /\ last = NoLast
    /\ enc = NoEnc
    /\ rsp = NoRsp
    /\ ws = NoWs
    /\ srv = NoSrv
    /\ api = NoApi
    /\ proc \in {[Serving EXCEPT !.rev = rev, !.pc = "start", !.sources = sources,
                                 !.loads = 0, !.keys = FALSE, !.mqtt = FALSE,
                                 !.http = FALSE, !.dotenv = file] :
                    rev \in {1, 2}, sources \in KeySources, file \in DotenvFiles}

\* main that goes on when LoadKeys has returned an error
MainLoadKeysIgnoresError ==
    /\ proc.pc = "start"
    /\ proc' = [proc EXCEPT !.loads = @ + 1,
                            !.keys = LoadKeys(proc.sources, env).ok,
                            !.pc = IF proc.rev = 2 THEN "mqtt" ELSE "db"]
    /\ UNCHANGED <<enc, clock, env, held, last>>
    /\ UNCHANGED handlerVars
    /\ UNCHANGED chatVars
    /\ UNCHANGED envelopeVars

\* err := core.LoadKeys(); if err != nil { panic(err) }
MainLoadKeys ==
    /\ proc.pc = "start"
    /\ LET err == ~LoadKeys(proc.sources, env).ok
       IN  proc' = IF err THEN Ended([proc EXCEPT !.loads = @ + 1], "panic")
                   ELSE [proc EXCEPT !.loads = @ + 1, !.keys = TRUE,
                                     !.pc = IF proc.rev = 2 THEN "mqtt" ELSE "db"]
    /\ UNCHANGED <<enc, clock, env, held, last>>
    /\ UNCHANGED handlerVars
    /\ UNCHANGED chatVars
    /\ UNCHANGED envelopeVars

\* rev 2: the hook and the TCP listener are added and the MQTT server is
\* started; main returns if AddListener or Serve fails
MainStartMqtt ==
    /\ proc.pc = "mqtt"
    /\ \E outcome \in {"ok", "AddListener", "Serve"} :
         proc' = IF outcome = "ok" THEN [proc EXCEPT !.mqtt = TRUE, !.pc = "db"]
                 ELSE Ended(proc, "return")
    /\ UNCHANGED <<enc, clock, env, held, last>>
    /\ UNCHANGED handlerVars
    /\ UNCHANGED chatVars
    /\ UNCHANGED envelopeVars

\* client, err := database.Connect(); if err != nil { panic(err) }
MainConnect ==
    /\ proc.pc = "db"
    /\ \E ok \in BOOLEAN :
         proc' = IF ok THEN [proc EXCEPT !.pc = "listen"] ELSE Ended(proc, "panic")
    /\ UNCHANGED <<enc, clock, env, held, last>>
    /\ UNCHANGED handlerVars
    /\ UNCHANGED chatVars
    /\ UNCHANGED envelopeVars

\* e.Logger.Fatal(e.StartTLS(...)) / e.StartAutoTLS(...): the HTTP listener
\* is up, or the process ends
MainStartHTTP ==
    /\ proc.pc = "listen"
    /\ \E ok \in BOOLEAN :
         proc' = IF ok THEN [proc EXCEPT !.http = TRUE, !.pc = "serving"]
                 ELSE Ended(proc, "fatal")
    /\ UNCHANGED <<enc, clock, env, held, last>>
    /\ UNCHANGED handlerVars
    /\ UNCHANGED chatVars
    /\ UNCHANGED envelopeVars

\* the process after a handler has read n secrets from the environment
\* environ, the values in values among them
AfterReads(p, n, values) ==
    [p EXCEPT !.served = @ + 1, !.reads = @ + n,
              !.bad = @ \/ \E v \in values : ~SecretUsable(v),
              !.seen = @ \cup values]

\* POST /refresh-token: JWTRefreshAuth reads JWT_REFRESH_SECRET once the
\* header is decoded, and RefreshToken, when it is reached, JWT_ACCESS_SECRET
ServeRefreshToken ==
    /\ proc.http
    /\ proc.served < MaxServed
    /\ \E c \in Requests :
         LET res == JWTRefreshAuth(c, env, clock)
             read == res.step \notin {"tls", "header", "base64"}
         IN  /\ last' = [NoLast EXCEPT !.op = "JWTRefreshAuth", !.req = c, !.t1 = clock,
                                       !.status = res.status, !.step = res.step,
                                       !.next = res.next, !.user = res.user]
             /\ proc' = AfterReads(proc,
                                   (IF read THEN 1 ELSE 0) + (IF res.next THEN 1 ELSE 0),
                                   (IF read THEN {env.refresh} ELSE {})
                                       \cup (IF res.next THEN {env.access} ELSE {}))
    /\ UNCHANGED <<enc, clock, env, held>>
    /\ UNCHANGED handlerVars
    /\ UNCHANGED chatVars
    /\ UNCHANGED envelopeVars

\* POST /signin of a user whose password verifies: godotenv.Load(), then
\* both secrets are read from the environment
ServeSignIn ==
    /\ proc.http
    /\ proc.served < MaxServed
    /\ env' = DotenvLoad(env, proc.dotenv)
    /\ proc' = AfterReads(proc, 2, {env'.access, env'.refresh})
    /\ UNCHANGED <<enc, clock, held, last>>
    /\ UNCHANGED handlerVars
    /\ UNCHANGED chatVars
    /\ UNCHANGED envelopeVars

\* rev 2, an MQTT CONNECT with a password: OnConnectAuthenticate calls
\* godotenv.Load() and, once the password is decoded, reads JWT_ACCESS_SECRET
MqttConnect ==
    /\ proc.mqtt
    /\ proc.served < MaxServed
    /\ env' = DotenvLoad(env, proc.dotenv)
    /\ \E token \in {EmptyString, NotBase64, held.wire} :
         LET read == token # EmptyString /\ DecodeString(token).ok
             res == OnConnectAuthenticate(token, env', clock)
         IN  /\ proc' = AfterReads(proc, IF read THEN 1 ELSE 0,
                                   IF read THEN {env'.access} ELSE {})
             /\ rsp' = [NoRsp EXCEPT !.op = "OnConnectAuthenticate",
                                     !.status = IF res.ok THEN 1 ELSE 0,
                                     !.step = res.step,
                                     !.in = [password |-> token, now |-> clock]]
    /\ UNCHANGED <<enc, clock, held, last, ws>>
    /\ UNCHANGED chatVars
    /\ UNCHANGED envelopeVars

MainNext ==
    \/ MainLoadKeys
    \/ MainStartMqtt
    \/ MainConnect
    \/ MainStartHTTP
    \/ ServeRefreshToken
    \/ ServeSignIn
    \/ MqttConnect

SpecMain == MainInit /\ [][MainNext]_vars

-----------------------------------------------------------------------------
(* Specifications *)

EnvInit ==
    /\ EnvelopeInit
    /\ clock = StartClock
    /\ env = [access |-> HexOf(Secret(1)), refresh |-> HexOf(Secret(2))]
    /\ held = NoHeld
    /\ last = NoLast
    /\ enc = NoEnc
    /\ rsp = NoRsp
    /\ ws = NoWs
    /\ srv = NoSrv
    /\ api = NoApi
    /\ proc = Serving

SpecEnv == EnvInit /\ [][EnvNext]_vars

DecInit ==
    /\ msg \in Envelopes
    /\ sent = GoodSent
    /\ dec = NoDec
    /\ calls = 1
    /\ clock = StartClock
    /\ env = [access |-> HexOf(Secret(1)), refresh |-> HexOf(Secret(2))]
    /\ held = NoHeld
    /\ last = NoLast
    /\ enc = NoEnc
    /\ rsp = NoRsp
    /\ ws = NoWs
    /\ srv = NoSrv
    /\ api = NoApi
    /\ proc = Serving

SpecDec == DecInit /\ [][DecNext]_vars

EncInit ==
    /\ EnvelopeInit
    /\ clock = StartClock
    /\ env = [access |-> HexOf(Secret(1)), refresh |-> HexOf(Secret(2))]
    /\ held = NoHeld
    /\ last = NoLast
    /\ enc = NoEnc
    /\ rsp = NoRsp
    /\ ws = NoWs
    /\ srv = NoSrv
    /\ api = NoApi
    /\ proc = Serving

SpecEnc == EncInit /\ [][EncNext]_vars

-----------------------------------------------------------------------------
(* Properties of the envelope *)

\* the last DecryptMessage call was made by the recipient of the envelope
\* EncryptMessage returned, with the sender's public key
ByRecipient ==
    /\ dec.called
    /\ dec.pub = sent.from
    /\ dec.priv = sent.to

\* C1: for every plaintext m (the empty one included) and every two key
\* pairs A, B, DecryptMessage(EncryptMessage(m, pkB, skA), pkA, skB) returns
\* exactly m and no error.
C1_RoundTrip ==
    (ByRecipient /\ msg = sent.msg) =>
        /\ dec.out.ok
        /\ ~dec.out.panic
        /\ dec.out.text = sent.content

\* C1 witness: the recipient has decrypted an untouched envelope of the
\* empty plaintext sent by another user, and got it back
C1_Witness ==
    /\ ByRecipient
    /\ msg = sent.msg
    /\ sent.from # sent.to
    /\ sent.content.n = 0
    /\ dec.out.ok
    /\ dec.out.text = sent.content

\* C3: when one bit of content, of aesSecret or of sharedSecretSalt of an
\* envelope EncryptMessage produced is changed, DecryptMessage returns an
\* error and no plaintext, whichever keys it is given.
C3_TamperDetected ==
    (dec.called /\ msg # sent.msg) =>
        /\ ~dec.out.ok
        /\ ~dec.out.panic
        /\ dec.out.err # ""
        /\ dec.out.text = NilBytes

\* C3 witness: the recipient has tried to decrypt an envelope of a
\* non-empty plaintext with a changed ciphertext byte, and got an error
C3_Witness ==
    /\ ByRecipient
    /\ sent.content.n > 0
    /\ msg.content # sent.msg.content
    /\ NonceSize \in {p \div 8 : p \in msg.content.x}
    /\ msg.aesSecret = sent.msg.aesSecret
    /\ msg.sharedSecretSalt = sent.msg.sharedSecretSalt
    /\ ~dec.out.ok

\* the two users an envelope belongs to
Parties == {sent.from, sent.to}

\* C14: DecryptMessage with the private key of a user who is neither the
\* sender nor the recipient of the envelope, or with the public key of such
\* a user, returns an error and no plaintext.
C14_OutsiderKeysRejected ==
    (dec.called /\ (dec.priv \notin Parties \/ dec.pub \notin Parties)) =>
        /\ ~dec.out.ok
        /\ ~dec.out.panic
        /\ dec.out.err # ""
        /\ dec.out.text = NilBytes

\* C14 witness: a third user has tried her own private key, with the
\* sender's public key, on an untouched envelope and got an error
C14_Witness ==
    /\ dec.called
    /\ msg = sent.msg
    /\ sent.from # sent.to
    /\ dec.priv \notin Parties
    /\ dec.pub = sent.from
    /\ ~dec.out.ok
    /\ dec.out.text = NilBytes

\* the last DecryptMessage call was made by the sender of the envelope, with
\* the recipient's public key
BySender ==
    /\ dec.called
    /\ dec.pub = sent.to
    /\ dec.priv = sent.from

\* C15: the sender reads his own envelope: for e = EncryptMessage(m, pkB, skA),
\* DecryptMessage(e, pkB, skA) returns m and no error, as DecryptMessage(e,
\* pkA, skB) does.
C15_SenderDecrypts ==
    (BySender /\ msg = sent.msg) =>
        /\ dec.out.ok
        /\ ~dec.out.panic
        /\ dec.out.text = sent.content

\* C15 witness: the sender has decrypted the untouched envelope of a
\* non-empty plaintext he sent to another user
C15_Witness ==
    /\ BySender
    /\ msg = sent.msg
    /\ sent.from # sent.to
    /\ sent.content.n > 0
    /\ dec.out.ok
    /\ dec.out.text = sent.content

\* C18: in every envelope EncryptMessage returns for a plaintext of L bytes,
\* the message key has 16 bytes, the key-encryption key 32 bytes and
\* sharedSecretSalt 32 bytes; content is a 12-byte nonce and L + 16 bytes,
\* aesSecret a 12-byte nonce and 32 bytes.  The size of the key-encryption
\* key is that of the hash, whatever the size of the message key.
C18_EnvelopeSizes ==
    sent.ok =>
        /\ sent.msg.content.t.key.n = 16
        /\ sent.msg.aesSecret.t.key.n = 32
        /\ sent.msg.aesSecret.t.key.n = HashSize
        /\ sent.msg.aesSecret.t.pt = sent.msg.content.t.key
        /\ sent.msg.sharedSecretSalt.n = 32
        /\ SliceTo(sent.msg.content, NonceSize).n = 12
        /\ SliceFrom(sent.msg.content, NonceSize).n = sent.content.n + 16
        /\ sent.msg.content.n = 12 + sent.content.n + 16
        /\ SliceTo(sent.msg.aesSecret, NonceSize).n = 12
        /\ SliceFrom(sent.msg.aesSecret, NonceSize).n = 32
        /\ sent.msg.aesSecret.n = 12 + 32

\* C18 witness: an envelope of a one-byte plaintext with a content of 29 bytes
C18_Witness ==
    /\ sent.ok
    /\ sent.content.n = 1
    /\ sent.msg.content.n = 29
    /\ sent.msg.aesSecret.n = 44

\* the result of DecryptMessage on the envelope as it is now, with the keys
\* of the last call
DecryptAgain ==
    DecryptMessage(msg, KeyOf(dec.pub).publicKey, KeyOf(dec.priv).privateKey)

-----------------------------------------------------------------------------
(* Properties of VerifyAccess and VerifyRefresh *)

\* the token at hand carries an EdDSA signature made with privateKey over
\* the claims it shows
SignedBy(privateKey) ==
    /\ held.jwt.k = "jwt"
    /\ held.jwt.alg = "EdDSA"
    /\ held.jwt.sig = [by |-> privateKey, alg |-> "EdDSA", over |-> held.jwt.claims]

\* iat and exp of the token at hand are present and pass every time check
\* of the last call
DatesAcceptable ==
    /\ held.jwt.claims.iat # 0
    /\ held.jwt.claims.iat < last.t2
    /\ held.jwt.claims.exp # 0
    /\ last.t1 < held.jwt.claims.exp
    /\ last.t3 <= held.jwt.claims.exp

\* C8: VerifyAccess accepts no token whose typ is not "access_token"; a
\* token with a valid access-key signature, an accepted iss and acceptable
\* iat and exp but another typ is rejected as an invalid token.
C8_AccessTypEnforced ==
    (last.op = "VerifyAccess" /\ held.jwt.claims.typ # "access_token") =>
        /\ ~last.out.ok
        /\ (/\ SignedBy(Ed25519Keys.AccessPrivateKey)
            /\ held.jwt.claims.iss \in {SignInIssuer, RefreshIssuer}
            /\ DatesAcceptable)
           => (~last.out.panic /\ last.out.err = "invalid token")

\* C8 witness: VerifyAccess has rejected a refresh_token-typed token that
\* is signed with the access key and is otherwise acceptable
C8_Witness ==
    /\ last.op = "VerifyAccess"
    /\ held.jwt.claims.typ = "refresh_token"
    /\ SignedBy(Ed25519Keys.AccessPrivateKey)
    /\ held.jwt.claims.iss = SignInIssuer
    /\ DatesAcceptable
    /\ last.out.err = "invalid token"

\* C9 (as claimed): VerifyRefresh accepts a token only if its typ is
\* "refresh_token".
C9_RefreshTypEnforced ==
    (last.op = "VerifyRefresh" /\ last.out.ok) => held.jwt.claims.typ = "refresh_token"

\* C10: a token signed with AccessPrivateKey never passes VerifyRefresh, and
\* a token signed with RefreshPrivateKey never passes VerifyAccess.
C10_KeyKindIsolation ==
    /\ (last.op = "VerifyRefresh" /\ held.jwt.sig.by = Ed25519Keys.AccessPrivateKey)
          => ~last.out.ok
    /\ (last.op = "VerifyAccess" /\ held.jwt.sig.by = Ed25519Keys.RefreshPrivateKey)
          => ~last.out.ok

\* C10 witness: VerifyRefresh has turned down, for its signature, a token
\* signed with the access key whose claims it would accept
C10_Witness ==
    /\ last.op = "VerifyRefresh"
    /\ SignedBy(Ed25519Keys.AccessPrivateKey)
    /\ held.jwt.claims.iss = SignInIssuer
    /\ DatesAcceptable
    /\ last.out.err = "token signature is invalid"

\* C12: VerifyAccess accepts a token only with iss signin or refresh-token and
\* VerifyRefresh only with iss signin; a token that is otherwise acceptable
\* is accepted exactly when its iss is one of these, so any other iss and
\* the absent iss are turned down by both.
C12_IssuersExact ==
    /\ (last.op = "VerifyAccess" /\ last.out.ok)
          => held.jwt.claims.iss \in {SignInIssuer, RefreshIssuer}
    /\ (last.op = "VerifyRefresh" /\ last.out.ok)
          => held.jwt.claims.iss = SignInIssuer
    /\ (/\ last.op = "VerifyAccess"
        /\ SignedBy(Ed25519Keys.AccessPrivateKey)
        /\ DatesAcceptable
        /\ held.jwt.claims.typ = "access_token"
        /\ held.jwt.claims.iss \in {SignInIssuer, RefreshIssuer})
          => last.out.ok
    /\ (/\ last.op = "VerifyRefresh"
        /\ SignedBy(Ed25519Keys.RefreshPrivateKey)
        /\ DatesAcceptable
        /\ held.jwt.claims.iss = SignInIssuer)
          => last.out.ok

\* C12 witness: VerifyRefresh has turned down, as an invalid token, a token
\* with iss refresh-token that is signed with the refresh key and has
\* acceptable dates
C12_Witness ==
    /\ last.op = "VerifyRefresh"
    /\ SignedBy(Ed25519Keys.RefreshPrivateKey)
    /\ DatesAcceptable
    /\ held.jwt.claims.iss = RefreshIssuer
    /\ ~last.out.ok
    /\ last.out.err = "invalid token"

\* C26 (as claimed): the validation rejects a token whose iat is not before
\* the current time, accepts a token whose exp is the current time, and
\* reports a token as expired only when its exp is before the current time.
C26_TimeBounds ==
    (/\ last.op # "none"
     /\ SignedBy(IF last.op = "VerifyAccess" THEN Ed25519Keys.AccessPrivateKey
                 ELSE Ed25519Keys.RefreshPrivateKey)
     /\ held.jwt.claims.iss = SignInIssuer
     /\ held.jwt.claims.typ = (IF last.op = "VerifyAccess" THEN "access_token"
                               ELSE "refresh_token")
     /\ held.jwt.claims.iat # 0
     /\ held.jwt.claims.exp # 0)
    =>
        /\ held.jwt.claims.iat >= last.t2 => ~last.out.ok
        /\ (/\ held.jwt.claims.iat < last.t2
            /\ held.jwt.claims.exp = last.t1
            /\ held.jwt.claims.exp = last.t3) => last.out.ok
        /\ last.out.err \in ExpiredErrors => held.jwt.claims.exp < last.t3

\* the header of the token at hand names a signing method other than EdDSA
OtherMethod == held.jwt.k = "jwt" /\ held.jwt.alg # "EdDSA"

\* C28: VerifyAccess and VerifyRefresh reject every token whose header names
\* a signing method other than EdDSA, whatever its claims and its signature:
\* the key function refuses the key, so no claim is examined.
C28_OnlyEdDSA ==
    (last.op # "none" /\ OtherMethod) =>
        /\ ~last.out.ok
        /\ ~last.out.panic
        /\ last.out.err = "token is unverifiable: unexpected signing method"

\* C28 witness: VerifyAccess has refused an HS256 token made with the access
\* key over claims it would accept
C28_Witness ==
    /\ last.op = "VerifyAccess"
    /\ OtherMethod
    /\ held.jwt.sig = [by |-> Ed25519Keys.AccessPrivateKey, alg |-> held.jwt.alg,
                       over |-> held.jwt.claims]
    /\ held.jwt.claims.iss = SignInIssuer
    /\ held.jwt.claims.typ = "access_token"
    /\ DatesAcceptable
    /\ ~last.out.ok

-----------------------------------------------------------------------------
(* Properties of the life of a token (SpecTok) *)

\* the token at hand was presented to the path of its own kind
OwnPath ==
    \/ last.op = "access path" /\ held.kind = "access"
    \/ last.op = "refresh path" /\ held.kind = "refresh"

\* the issuer of the token at hand is one its verifier accepts
IssuerAccepted ==
    \/ held.kind = "access" /\ held.jwt.claims.iss \in {SignInIssuer, RefreshIssuer}
    \/ held.kind = "refresh" /\ held.jwt.claims.iss = SignInIssuer

\* C2: an access token issued for id with an accepted issuer, encrypted under
\* the access secret, then decrypted and verified on the access path right
\* after it was issued (the verification starts in the second of its iat),
\* verifies and yields sub = id.
C2_FreshTokenVerifies ==
    (/\ last.op = "access path"
     /\ held.kind = "access"
     /\ IssuerAccepted
     /\ last.t1 = held.jwt.claims.iat)
    => /\ last.out.ok
       /\ ObjectIDFromHex(last.out.claims.sub) = [ok |-> TRUE, id |-> held.id]

\* C5: a token verified on the path of its kind at a time later than its exp
\* is turned down as expired, and a token that was once turned down as
\* expired is not accepted afterwards.
C5_ExpiredStaysRejected ==
    /\ (OwnPath /\ last.t1 > held.jwt.claims.exp)
       => (~last.out.ok /\ last.out.err \in ExpiredErrors)
    /\ (last.op # "none" /\ held.expired) => ~last.out.ok

\* an access token presented to the access path one second after its exp is
\* turned down as expired
C5_Witness ==
    /\ last.op = "access path"
    /\ held.kind = "access"
    /\ last.t1 = held.jwt.claims.exp + 1
    /\ held.jwt.claims.exp = held.jwt.claims.iat + AccessWindow
    /\ ~last.out.ok
    /\ last.out.err \in ExpiredErrors
    /\ held.expired

\* C6: a correctly issued token presented to the path of its kind at the one
\* clock time now is accepted exactly when iat <= now < exp.
C6_ValidWindow ==
    (/\ OwnPath
     /\ IssuerAccepted
     /\ last.t1 = last.t3)
    => (last.out.ok <=> (held.jwt.claims.iat <= last.t1 /\ last.t1 < held.jwt.claims.exp))

\* C13: for every issued token exp - iat is the validity window of its kind,
\* 7200 seconds for an access token and 604800 seconds for a refresh token,
\* and typ is "access_token" / "refresh_token".
C13_FixedWindow ==
    held.src = "issued" =>
        /\ held.kind = "access"
              => /\ held.jwt.claims.exp - held.jwt.claims.iat = 7200
                 /\ held.jwt.claims.typ = "access_token"
        /\ held.kind = "refresh"
              => /\ held.jwt.claims.exp - held.jwt.claims.iat = 604800
                 /\ held.jwt.claims.typ = "refresh_token"

-----------------------------------------------------------------------------
(* Properties of the middleware (SpecAuth) *)

\* the last step was a request to one of the two middlewares
Requested == last.op \in {"JWTAccessAuth", "JWTRefreshAuth"}

\* the token at hand carries a signature of signer over its claims
SignedIntact(signer) ==
    /\ held.jwt.k = "jwt"
    /\ held.jwt.alg = "EdDSA"
    /\ held.jwt.sig = [by |-> signer, alg |-> "EdDSA", over |-> held.jwt.claims]

\* the claims of the token at hand are those the kind asks for at the time
\* of the request
ClaimsGood(isAccess) ==
    /\ held.jwt.claims.iss \in (IF isAccess THEN {SignInIssuer, RefreshIssuer} ELSE {SignInIssuer})
    /\ held.jwt.claims.iat # 0
    /\ held.jwt.claims.iat < last.t1
    /\ held.jwt.claims.exp >= last.t1
    /\ held.jwt.claims.typ = (IF isAccess THEN "access_token" ELSE "refresh_token")

\* every step of the middleware of kind isAccess has what it needs
AllStepsGood(isAccess) ==
    /\ last.req.tls
    /\ last.req.authorization = HeaderValue("Bearer ", held.wire)
    /\ held.wire # EmptyString
    /\ HexOf(held.key) = SecretOf(env, isAccess)
    /\ SignedIntact(IF isAccess THEN Ed25519Keys.AccessPrivateKey
                    ELSE Ed25519Keys.RefreshPrivateKey)
    /\ ClaimsGood(isAccess)
    /\ held.jwt.claims.sub.k = "hex24"

\* C4: next is called only if the request came over TLS with a non-empty
\* Bearer token that decodes, decrypts under the secret of the kind, carries
\* a signature of the kind's key and claims that verify and a subject that is
\* an object id; then the user attached has the id of the token's sub.  When
\* next is not called, the request ends with an error and no user is attached.
C4_NextOnlyWhenVerified ==
    Requested =>
        /\ last.next => /\ AllStepsGood(last.op = "JWTAccessAuth")
                        /\ last.user = held.jwt.claims.sub.id
                        /\ last.user \in Ids
        /\ ~last.next => /\ last.user = 0
                         /\ last.status \in {400, 403, 500}

\* a request went through JWTAccessAuth and next was called for user 2
C4_Witness ==
    /\ last.op = "JWTAccessAuth"
    /\ last.next
    /\ last.user = 2
    /\ held.jwt.claims.sub = ObjectIDHex(2)

\* C7: a token signed and typed as an access token and encrypted under the
\* access secret is turned down by JWTRefreshAuth when it decrypts, and a
\* refresh token encrypted under the refresh secret by JWTAccessAuth,
\* whenever the two secrets differ.
C7_SecretKindIsolation ==
    /\ (/\ last.op = "JWTRefreshAuth"
        /\ last.req = Request(TRUE, HeaderValue("Bearer ", held.wire))
        /\ SignedIntact(Ed25519Keys.AccessPrivateKey)
        /\ held.jwt.claims.typ = "access_token"
        /\ HexOf(held.key) = env.access
        /\ env.access # env.refresh)
       => (~last.next /\ last.step \in {"hex", "decrypt"})
    /\ (/\ last.op = "JWTAccessAuth"
        /\ last.req = Request(TRUE, HeaderValue("Bearer ", held.wire))
        /\ SignedIntact(Ed25519Keys.RefreshPrivateKey)
        /\ held.jwt.claims.typ = "refresh_token"
        /\ HexOf(held.key) = env.refresh
        /\ env.access # env.refresh)
       => (~last.next /\ last.step \in {"hex", "decrypt"})

\* an access token that JWTAccessAuth would let through is turned down by
\* JWTRefreshAuth at the decryption, both secrets being keys
C7_Witness ==
    /\ last.op = "JWTRefreshAuth"
    /\ last.req = Request(TRUE, HeaderValue("Bearer ", held.wire))
    /\ SignedIntact(Ed25519Keys.AccessPrivateKey)
    /\ held.jwt.claims.typ = "access_token"
    /\ HexOf(held.key) = env.access
    /\ env.refresh \in {HexOf(Secret(1)), HexOf(Secret(2))}
    /\ env.access # env.refresh
    /\ JWTAccessAuth(last.req, env, last.t1).next
    /\ last.step = "decrypt"
    /\ last.status = 403

-----------------------------------------------------------------------------
(* Properties of EncryptMessage as a function (SpecEnc) *)

\* what EncryptMessage drew for an envelope: the message key, the content
\* nonce, the salt and the key-wrap nonce
DrawsOf(e) ==
    <<e.content.t.key, e.content.t.nonce, e.sharedSecretSalt, e.aesSecret.t.nonce>>

\* the (key, nonce) pairs of the two seals of an envelope
SealsOf(e) ==
    {<<e.content.t.key, e.content.t.nonce>>, <<e.aesSecret.t.key, e.aesSecret.t.nonce>>}

\* C16: of the envelopes EncryptMessage has returned, whatever its inputs,
\* no two share a message key, a content nonce, a salt or a key-wrap nonce,
\* the four draws of one envelope are four different draws, and no (key,
\* nonce) pair was used for two seals.
C16_FreshDraws ==
    /\ \A i \in 1 .. Len(enc.returned) :
         /\ Cardinality({DrawsOf(enc.returned[i])[k] : k \in 1 .. 4}) = 4
         /\ Cardinality(SealsOf(enc.returned[i])) = 2
    /\ \A i \in 1 .. Len(enc.returned), j \in 1 .. Len(enc.returned) :
         i < j =>
            /\ \A k \in 1 .. 4 : DrawsOf(enc.returned[i])[k] # DrawsOf(enc.returned[j])[k]
            /\ SealsOf(enc.returned[i]) \cap SealsOf(enc.returned[j]) = {}

\* C16 witness: EncryptMessage has returned two envelopes for the same
\* content and the same keys
C16_Witness ==
    /\ Len(enc.returned) = 2
    /\ enc.returned[1].content.t.pt = enc.returned[2].content.t.pt
    /\ enc.returned[1].aesSecret.t.key.t.secret = enc.returned[2].aesSecret.t.key.t.secret
    /\ enc.returned[1] # enc.returned[2]

\* an envelope with all three fields set
Complete(e) ==
    /\ e.content.n >= NonceSize + TagSize
    /\ e.aesSecret.n = NonceSize + MessageKeySize + TagSize
    /\ e.sharedSecretSalt.n = SaltSize

\* C17: EncryptMessage returns either a complete envelope and a nil error, or
\* an error and the empty envelope; a failed draw from rand.Reader and a key
\* X25519 refuses end in an error, and no call panics.
C17_AllOrNothing ==
    enc.calls > 0 =>
        /\ ~enc.out.panic
        /\ \/ enc.out.ok /\ enc.out.err = "" /\ Complete(enc.out.msg)
           \/ ~enc.out.ok /\ enc.out.err # "" /\ enc.out.msg = EmptyMessage
        /\ (\/ enc.failAt # 0
            \/ enc.publicKey \in {LowOrderPoint, ShortKey}
            \/ enc.privateKey = ShortKey)
           => ~enc.out.ok

\* C17 witness: the draw of the salt has failed, after the content was sealed,
\* and EncryptMessage has returned an error and the empty envelope
C17_Witness ==
    /\ enc.calls > 0
    /\ enc.failAt = 3
    /\ enc.publicKey = KeyOf("bob").publicKey
    /\ enc.privateKey = KeyOf("alice").privateKey
    /\ ~enc.out.ok
    /\ enc.out.err = "rand"
    /\ enc.out.msg = EmptyMessage

-----------------------------------------------------------------------------
(* Properties of the process (SpecMain) *)

\* a listener is up or a request has been served
Started == proc.mqtt \/ proc.http \/ proc.served > 0

\* C19: if the loading of the keys at startup fails the process aborts before
\* a listener of HTTP or of MQTT is started, so that no request is served
\* without the keys; the loading is attempted once and never again.
C19_LoadFailureAborts ==
    /\ proc.loads <= 1
    /\ Started => proc.keys /\ proc.loads = 1 /\ LoadKeys(proc.sources, env).ok
    /\ (proc.loads = 1 /\ ~proc.keys) => proc.pc = "panic" /\ ~Started

\* the loading has failed and the process has aborted with no listener
C19_Witness ==
    /\ proc.loads = 1
    /\ proc.sources = "absent"
    /\ proc.pc = "panic"
    /\ ~Started

\* C20: the two transport secrets are read once at startup, an absent or
\* malformed one being fatal there: no handler reads them from the
\* environment, none runs with an absent or malformed one, and all requests
\* use the one value loaded at startup.
C20_SecretsReadAtStartup ==
    /\ proc.reads = 0
    /\ ~proc.bad
    /\ \A v \in proc.seen : v \in {env.access, env.refresh}

-----------------------------------------------------------------------------
(* Tokens issued after the held one (SpecTok) *)

\* C11: no operation invalidates an issued token: after any sequence of
\* SignIn, RefreshToken and verifications, newer tokens for the same user
\* included, a token that was valid (a verification on its path has accepted
\* it) and has not reached its exp still verifies on its path.
C11_NoRevocation ==
    (OwnPath /\ held.valid /\ last.t3 < held.jwt.claims.exp) => last.out.ok

\* a token that was accepted is accepted again after a newer one was
\* issued, with a .env file of other secrets in place
C11_Witness ==
    /\ OwnPath
    /\ held.valid
    /\ held.newer >= 1
    /\ proc.dotenv.access \notin {Unset, env.access}
    /\ last.out.ok

-----------------------------------------------------------------------------
(* Properties of DecryptMessage as a function (SpecDec) *)

\* C29: DecryptMessage returns an error for every malformed envelope and
\* never crashes, also when aesSecret or content is shorter than the
\* 12-byte nonce or empty.
C29_MalformedReturnsError ==
    (dec.called /\ msg # sent.msg) =>
        /\ ~dec.out.panic
        /\ ~dec.out.ok
        /\ dec.out.err # ""

-----------------------------------------------------------------------------
(* Properties of POST /signin (SpecSignIn) *)

\* the response of the last call carries no token
NoTokens == rsp.access = EmptyString /\ rsp.refresh = EmptyString

\* the account of the submitted name was found and its stored hash is a
\* hash of the submitted password
PasswordVerified ==
    /\ ~rsp.in.exists.err
    /\ rsp.in.exists.found
    /\ ~rsp.in.lookup.err
    /\ rsp.in.lookup.rec.Username = rsp.in.user.Username
    /\ rsp.in.lookup.rec.Password = HashOf(rsp.in.user.Password)

\* C22: SignIn issues tokens only after the submitted password was verified
\* against the stored hash of the named user: when the user does not exist,
\* the lookup fails or the password does not match, the response is an
\* error (404 or 401) without an access or a refresh token.
C22_TokensOnlyAfterVerify ==
    (rsp.op = "SignIn" /\ ~PasswordVerified) =>
        /\ rsp.status \in {401, 404}
        /\ NoTokens

\* C22 witness: bob's account was found, the password submitted was not
\* bob's, and SignIn has answered 401 without tokens
C22_Witness ==
    /\ rsp.op = "SignIn"
    /\ ~rsp.in.lookup.err
    /\ rsp.in.lookup.rec.Username = "bob"
    /\ rsp.in.user.Password = "pw-alice"
    /\ rsp.status = 401
    /\ NoTokens

\* the sub claim of a token of the response, decrypted under the secret
\* value of the environment
SubjectOf(wire, value) ==
    StringOfBytes(EncrypterDecrypt(DecodeString(wire).val,
                                   HexDecodeString(value).val).val).claims.sub

\* C24 (as claimed): the sub claim of the tokens SignIn issues is the Id of
\* the stored account whose password was verified, never the id UserAuth
\* made for the request or one given in the body.
C24_SubjectIsStoredId ==
    (rsp.op = "SignIn" /\ rsp.status = 200) =>
        /\ SubjectOf(rsp.refresh, env.refresh) = ObjectIDHex(rsp.in.lookup.rec.Id)
        /\ rsp.access # EmptyString
              => SubjectOf(rsp.access, env.access) = ObjectIDHex(rsp.in.lookup.rec.Id)

\* the six steps of the last SignIn call all succeeded: both tokens signed,
\* both secrets hex-decoded, both tokens encrypted
SixStepsSucceeded ==
    /\ rsp.in.signFails = {}
    /\ HexDecodeString(env.access).ok
    /\ HexDecodeString(env.refresh).ok
    /\ AesKeySizeOk(HexDecodeString(env.access).val)
    /\ AesKeySizeOk(HexDecodeString(env.refresh).val)

\* C25 (as claimed): SignIn answers with success and tokens only when the
\* signing of both tokens, the hex decoding of both secrets and the
\* encryption of both tokens succeeded; when one of the six fails, the
\* response is an error without a token.
C25_AllSixOrError ==
    (rsp.op = "SignIn" /\ PasswordVerified) =>
        IF SixStepsSucceeded
        THEN rsp.status = 200 /\ rsp.access # EmptyString /\ rsp.refresh # EmptyString
        ELSE rsp.status # 200 /\ NoTokens

-----------------------------------------------------------------------------
(* Properties of POST /refresh-token (SpecRefresh) *)

\* the token at hand is a refresh token as SignIn issues them, under the
\* refresh secret of the environment, valid at the time now
ValidRefreshToken(now) ==
    /\ SignedBy(Ed25519Keys.RefreshPrivateKey)
    /\ held.jwt.claims.iss = SignInIssuer
    /\ held.jwt.claims.typ = "refresh_token"
    /\ held.jwt.claims.iat # 0
    /\ held.jwt.claims.iat < now
    /\ held.jwt.claims.exp >= now
    /\ env.refresh = HexOf(held.key)

\* the token of the response as a request to a route behind JWTAccessAuth
WithNewToken == Request(TRUE, HeaderValue("Bearer ", rsp.access))

\* C27: /refresh-token answers a valid refresh token only, and with a new
\* access token only: its sub is the sub of the refresh token, its issuer
\* is refresh-token, it is encrypted under the access secret and passes the
\* access verification; no refresh token is issued, and the refresh token
\* presented is accepted again up to its exp.
C27_RefreshRoute ==
    /\ rsp.op = "RefreshToken" =>
          /\ rsp.in.c = Request(TRUE, HeaderValue("Bearer ", held.wire))
          /\ ValidRefreshToken(rsp.in.now)
          /\ rsp.refresh = EmptyString
    /\ (rsp.op = "RefreshToken" /\ rsp.status = 200) =>
          LET new == StringOfBytes(EncrypterDecrypt(DecodeString(rsp.access).val,
                                                    HexDecodeString(env.access).val).val)
          IN  /\ new.claims.sub = held.jwt.claims.sub
              /\ new.claims.iss = RefreshIssuer
              /\ new.claims.typ = "access_token"
              /\ JWTAccessAuth(WithNewToken, env, new.claims.iat + 1).next
              /\ JWTAccessAuth(WithNewToken, env, new.claims.exp).next
              /\ JWTAccessAuth(WithNewToken, env, new.claims.iat + 1).user = rsp.id
    /\ (last.op = "JWTRefreshAuth" /\ last.t1 <= held.jwt.claims.exp) => last.next

\* C27 witness: a refresh token was answered with a new access token and,
\* presented again a second later, accepted again
C27_Witness ==
    /\ rsp.op = "RefreshToken"
    /\ rsp.status = 200
    /\ rsp.access # EmptyString
    /\ env.access # env.refresh
    /\ last.op = "JWTRefreshAuth"
    /\ last.t1 > rsp.in.now
    /\ last.next

-----------------------------------------------------------------------------
(* Properties of the MQTT connect hook (SpecMqtt) *)

\* the password is the wire form of the token at hand, which decrypts under
\* the access secret, carries a signature of the access key over its claims
\* and claims that pass the access verification at the time of the call
ConnectGood ==
    /\ rsp.in.password = held.wire
    /\ held.wire # EmptyString
    /\ env.access = HexOf(held.key)
    /\ SignedBy(Ed25519Keys.AccessPrivateKey)
    /\ held.jwt.claims.iss \in {SignInIssuer, RefreshIssuer}
    /\ held.jwt.claims.typ = "access_token"
    /\ held.jwt.claims.iat # 0
    /\ held.jwt.claims.iat < rsp.in.now
    /\ held.jwt.claims.exp >= rsp.in.now

\* C30: OnConnectAuthenticate returns true only if the password is not
\* empty, decodes as base64, decrypts under the access secret, parses with
\* a signature of the access key and passes the verification of access
\* claims; in every other case, an empty password and a refresh token
\* included, it returns false.
C30_ConnectOnlyWithAccessToken ==
    rsp.op = "OnConnectAuthenticate" => (rsp.status = 1 <=> ConnectGood)

\* C30 witness: a client was let in with an access token issued by
\* RefreshToken, with a .env file of other secrets in place
C30_Witness ==
    /\ rsp.op = "OnConnectAuthenticate"
    /\ rsp.status = 1
    /\ held.jwt.claims.iss = RefreshIssuer
    /\ proc.dotenv # NoDotenv
    /\ ConnectGood

-----------------------------------------------------------------------------
(* Properties of wsHandler (SpecWsLive) *)

\* s is the first Len(s) elements of t
IsPrefix(s, t) == Len(s) <= Len(t) /\ SubSeq(t, 1, Len(s)) = s

\* what was written back is, message by message, what was read, which is what
\* the client sent; the handler reads the next message only when the last
\* one read is written back
EchoInOrder ==
    /\ IsPrefix(ws.read, ws.sent)
    /\ IsPrefix(ws.written, ws.read)
    /\ ws.pc \in {"none", "ReadMessage"} => Len(ws.written) = Len(ws.read)
    /\ ws.pc = "WriteMessage" => Len(ws.written) = Len(ws.read) - 1
    /\ ws.pc = "returned" =>
         /\ ws.err \in {"upgrade", "read", "write"}
         /\ Len(ws.written) = Len(ws.read) - (IF ws.err = "write" THEN 1 ELSE 0)

\* after an error nothing is read and nothing is written
StopsAtError ==
    ws.pc = "returned" => ws'.pc = "returned" /\ ws'.err = ws.err
                          /\ ws'.read = ws.read /\ ws'.written = ws.written

\* C23: on an open /ws connection wsHandler writes back, for every message
\* the client sends, exactly one message of the same type with the same
\* bytes, in the order received and before it reads the next one, and it
\* stops at the first read or write error.
C23_EchoInOrder ==
    /\ []EchoInOrder
    /\ [][StopsAtError]_vars
    /\ \A i \in 1 .. MaxMessages :
         (Len(ws.sent) >= i) ~> (Len(ws.written) >= i \/ ws.pc = "returned")

\* C23 witness: the client sent a binary message with a JSON text and then a
\* text message; both came back and the handler waits for the next one
C23_Witness ==
    /\ ws.pc = "ReadMessage"
    /\ Len(ws.sent) = 2
    /\ ws.sent[1] = WsMessage(BinaryMessage, <<34, 104, 105, 34>>)
    /\ ws.sent[2].messageType = TextMessage
    /\ ws.written = ws.sent

-----------------------------------------------------------------------------
(* Properties of the chat server (SpecChat) *)

\* C31: the cleanup removes a user (and publishes the offline status) only
\* if the entry of that user, at the moment it is removed, is more than
\* InactiveAfter minutes old; an entry a worker has written during the pass
\* is not removed.
C31_RemovedOnlyWhenStale ==
    srv.removed.kind = "SetUserOffline" /\ srv.removed.on
        => srv.removed.at - srv.removed.seen > InactiveAfter

\* C32: a user is recorded online only through a payload this user has
\* published; the delivery receipt the server publishes for a message to r
\* does not record r online.
C32_OnlineOnlyByOwnTraffic ==
    srv.setOnline.kind = "SetUserOnline" => srv.setOnline.by = srv.setOnline.user

-----------------------------------------------------------------------------
(* Properties of the workers (SpecWorkers) and of Shutdown (SpecShutdown) *)

IsJson(payload) == payload.json

IsReceipt(pub) == Subscription(pub.topic) = "status"

\* the messages processMessages has parsed and the receipts it has published
Parsed == SelectSeq(srv.taken, IsJson)

Receipts == SelectSeq(srv.published, IsReceipt)

\* one receipt for every parsed message, in their order, with the fields of
\* the message reversed, on the topic of the receiver and the sender
OneReceiptEach ==
    /\ Len(Receipts) = Len(Parsed)
    /\ \A i \in 1 .. Len(Parsed) :
         LET message == Parsed[i]
             receipt == Receipts[i]
         IN  /\ receipt.topic = <<"chat", message.receiver, message.sender, "status">>
             /\ receipt.payload.id = message.id
             /\ receipt.payload.sender = message.receiver
             /\ receipt.payload.receiver = message.sender
             /\ receipt.payload.status = "delivered"
    /\ IsPrefix(srv.taken, srv.queued)
    /\ srv.pc.messages = "presence" => Parsed # <<>> /\ srv.cur = Parsed[Len(Parsed)]
    /\ srv.pc.messages = "returned" => srv.done

\* after the receipt the sender of the message is recorded online
ThenSenderOnline ==
    srv.pc.messages = "presence" /\ srv'.pc.messages # "presence"
        => /\ srv'.pc.messages = "select"
           /\ srv'.onlineUsers[srv.cur.sender] = [on |-> TRUE, at |-> srv.now]
           /\ srv'.published = srv.published

\* C33: for every payload of the message queue that parses processMessages
\* publishes exactly one status update "delivered" with the ID of the
\* message, Sender and Receiver reversed, on chat/<receiver>/<sender>/status,
\* and then records the sender online; a payload that does not parse gets
\* no receipt and the worker goes on; the payloads are taken in the order
\* they were queued.
C33_OneReceiptPerMessage ==
    /\ []OneReceiptEach
    /\ [][ThenSenderOnline]_vars
    /\ \A i \in 1 .. MaxPublished :
         (Len(srv.queued) >= i) ~> (Len(srv.taken) >= i)

\* C33 witness: a payload that does not parse and then a message of bob were
\* taken; there is one receipt and bob is recorded online
C33_Witness ==
    /\ Len(srv.taken) = 2
    /\ ~srv.taken[1].json
    /\ srv.taken[2] = MessagePayload("m2", "bob", "alice")
    /\ Len(Receipts) = 1
    /\ srv.pc.messages = "select"
    /\ srv.onlineUsers["bob"].on

\* C35: after Shutdown each of the five loops returns, whatever waits in
\* the queues.
C35_LoopsReturn ==
    srv.done ~> (\A w \in Loops : srv.pc[w] = "returned")

\* C35 witness: the five loops have returned and a payload is left in the
\* message queue
C35_Witness ==
    /\ srv.done
    /\ \A w \in Loops : srv.pc[w] = "returned"
    /\ srv.q["message"] # <<>>

-----------------------------------------------------------------------------
(* Properties of the callbacks (SpecQueues) *)

\* a callback has run: for a payload of a client or for one of the server
CallbackRan == srv'.budget # srv.budget \/ Len(srv'.wire) < Len(srv.wire)

\* the callback has put its payload at the end of its queue when the queue
\* held fewer than QueueCap payloads and has left the queue as it was
\* otherwise; it has not touched another queue
QueuedOrDropped ==
    CallbackRan =>
        LET chan == srv'.cb.chan
            payload == srv'.cb.payload
        IN  /\ srv'.q[chan] = IF Len(srv.q[chan]) < QueueCap
                              THEN Append(srv.q[chan], payload)
                              ELSE srv.q[chan]
            /\ \A c \in Chans \ {chan} : srv'.q[c] = srv.q[c]

\* a callback can run whatever the queues hold
NeverBlocks ==
    /\ srv.connected /\ srv.budget > 0 => ENABLED ClientPublish
    /\ srv.connected /\ srv.wire # <<>> => ENABLED BrokerDeliver

\* C34: handleMessage, handleTyping, handleStatus and handleOnline never
\* block: each puts the payload on its queue when fewer than QueueCap (1000
\* in the source) payloads wait there and drops it otherwise, leaving the
\* queue as it was; no queue ever holds more than QueueCap payloads.
C34_QueueOrDrop ==
    /\ [](\A c \in Chans : Len(srv.q[c]) <= QueueCap)
    /\ []NeverBlocks
    /\ [][QueuedOrDropped]_vars

\* C34 witness: the clients have published QueueCap + 1 messages and no
\* worker has run: the message queue is full and the last one is dropped
C34_Witness ==
    /\ srv.budget = 0
    /\ srv.cb.chan = "message"
    /\ Len(srv.q["message"]) = QueueCap
    /\ srv.queued = srv.q["message"]
    /\ srv.taken = <<>>
    /\ \A c \in Chans \ {"message"} : srv.q[c] = <<>>
    /\ srv.setOnline = NoEvent

-----------------------------------------------------------------------------
(* Properties of the API server (SpecApi) *)

\* C36: the users map and the userStatus map of UserService are never in
\* use by two goroutines at once, one of them writing: the handlers of
\* concurrent requests and handleMQTTOnline exclude each other on every
\* access.
C36_MapsMutuallyExcluded ==
    \A i \in Goroutines : ~Racing(api, i)

====
